---- MODULE Spec2Model ----
(***************************************************************************)
(* A model of the FunctionEncoder package: construction of an encoder and  *)
(* its parameter-count self check, the representation solvers and the      *)
(* inner products they use, prediction, and the training loop.             *)
(*                                                                         *)
(* Tensors hold exact rationals; a network is the pointwise function its   *)
(* parameters compute.                                                     *)
(***************************************************************************)
EXTENDS Integers, Sequences, FiniteSets, TLC

VARIABLES
    args,        \* the arguments of FunctionEncoder.__init__
    ctor_pc,     \* position inside FunctionEncoder.__init__
    fe,          \* the attributes of the encoder object set so far
    raised,      \* the exception that left __init__, or NoExc
    this,        \* a constructed encoder: its sizes, data type, mode, residuals flag
    weights,     \* the parameters of its networks
    rep_pc,      \* "idle", or "returned" after a call of one of its methods
    call,        \* the method called and its arguments
    ret,         \* what the call returned or raised
    trainee,     \* the encoder train_model runs on: mode, residuals, accumulation
    tcall,       \* the arguments of the train_model call in progress
    train_pc,    \* position inside train_model
    epoch,       \* the loop variable of train_model, -1 before the loop
    log,         \* the collaborator calls and tensor operations of this call, in order
    graph,       \* per tensor of the epoch: the parameter groups it has gradient paths to
    grads,       \* per parameter group: the loss terms accumulated in its .grad
    passes,      \* the backward passes accumulated in .grad: the call of each
    opt_steps,   \* optimizer steps applied to the parameters so far
    calls,       \* train_model calls made on the encoder
    distance_callback  \* the DistanceCallback given to train_model, or NoCallback

ctorVars == <<args, ctor_pc, fe, raised>>

repVars == <<this, weights, rep_pc, call, ret>>

trainVars == <<trainee, tcall, train_pc, epoch, log, graph, grads, passes, opt_steps,
               calls, distance_callback>>

vars == <<ctorVars, repVars, trainVars>>

----------------------------------------------------------------------------
(* Bounds of the model.                                                    *)

MaxBasis == 2
MaxHidden == 2
MaxLayers == 3
MaxChannels == 1

----------------------------------------------------------------------------
(* Program constants.                                                      *)

MLP_default_hidden_size == 256
MLP_default_n_layers == 4
CNN_default_hidden_size == 256
CNN_default_n_layers == 3
CNN_kernel_size == 3
CNN_max_channels == 4
Encoder_default_hidden_size == 128
Encoder_default_n_layers == 3

----------------------------------------------------------------------------
(* Python calls: keyword binding, keyword arguments with defaults.         *)

NoExc == [type |-> "none", at |-> "none"]

Exc(t, where) == [type |-> t, at |-> where]

EmptyKwargs == [k \in {} |-> 0]

\* kwargs.get(k, default) for a keyword dictionary modelled as a function.
KwGet(kw, k, default) == IF k \in DOMAIN kw THEN kw[k] ELSE default

\* A call binds when every keyword passed is a parameter of the callee (or
\* the callee takes **kwargs) and every parameter without default is passed.
Binds(passed, accepted, takesVarKw, required) ==
    /\ (takesVarKw \/ passed \subseteq accepted)
    /\ required \subseteq passed

\* All keyword dictionaries over the given keys with values in vals.
KwDicts(keys, vals) == UNION {[S -> vals] : S \in SUBSET keys}

RECURSIVE Prod(_)
Prod(s) == IF s = <<>> THEN 1 ELSE Head(s) * Prod(Tail(s))

RECURSIVE SumSeq(_)
SumSeq(s) == IF s = <<>> THEN 0 ELSE Head(s) + SumSeq(Tail(s))

\* range(n): empty when n <= 0.
PyRange(n) == 1 .. n

----------------------------------------------------------------------------
(* torch.nn layers and their parameter counts (p.numel() summed).          *)

Linear(i, o) == [kind |-> "Linear", nin |-> i, nout |-> o, k |-> 1]
LayerNorm(w) == [kind |-> "LayerNorm", nin |-> w, nout |-> w, k |-> 1]
Conv2d(i, o, ks) == [kind |-> "Conv2d", nin |-> i, nout |-> o, k |-> ks]
Activation == [kind |-> "Activation", nin |-> 0, nout |-> 0, k |-> 1]

\* weight plus bias of one layer.
numel(layer) ==
    CASE layer.kind = "Linear" -> layer.nin * layer.nout + layer.nout
      [] layer.kind = "LayerNorm" -> 2 * layer.nin
      [] layer.kind = "Conv2d" -> layer.k * layer.k * layer.nin * layer.nout + layer.nout
      [] OTHER -> 0

n_params_of(layers) == SumSeq([i \in 1 .. Len(layers) |-> numel(layers[i])])

\* A module that was not built (None).
None == [built |-> FALSE, layers |-> <<>>, learn_basis_functions |-> FALSE]

Module(layers, lbf) == [built |-> TRUE, layers |-> layers, learn_basis_functions |-> lbf]

\* The result of a constructor call: the module, or the exception raised.
Ok(m) == [exc |-> NoExc, module |-> m]
Fail(e) == [exc |-> e, module |-> None]

----------------------------------------------------------------------------
(* MLP (Architecture/MLP.py).                                              *)

MLP_predict_number_params(input_size, output_size, n_basis, hidden_size, n_layers, learn_basis_functions) ==
    LET nin == input_size[1]
        nout == IF learn_basis_functions THEN output_size[1] * n_basis ELSE output_size[1]
    IN  nin * hidden_size + hidden_size
        + (n_layers - 2) * hidden_size * hidden_size + (n_layers - 2) * hidden_size
        + hidden_size * nout + nout

\* The layers MLP.__init__ appends, in order.
MLP_layers(input_size, output_size, n_basis, hidden_size, n_layers, learn_basis_functions) ==
    LET nin == input_size[1]
        nout == IF learn_basis_functions THEN output_size[1] * n_basis ELSE output_size[1]
        hidden == [i \in PyRange(2 * (n_layers - 2)) |->
                      IF i % 2 = 1 THEN Linear(hidden_size, hidden_size) ELSE Activation]
    IN  <<Linear(nin, hidden_size), Activation>> \o hidden \o <<Linear(hidden_size, nout)>>

MLP_keywords == {"input_size", "output_size", "n_basis", "hidden_size", "n_layers",
                 "activation", "learn_basis_functions"}

\* MLP(input_size=, output_size=, n_basis=, learn_basis_functions=, **kw)
MLP_init(input_size, output_size, n_basis, learn_basis_functions, kw) ==
    LET passed == {"input_size", "output_size", "n_basis", "learn_basis_functions"}
                      \cup DOMAIN kw
        hidden_size == KwGet(kw, "hidden_size", MLP_default_hidden_size)
        n_layers == KwGet(kw, "n_layers", MLP_default_n_layers)
        layers == MLP_layers(input_size, output_size, n_basis, hidden_size, n_layers,
                             learn_basis_functions)
        estimated == MLP_predict_number_params(input_size, output_size, n_basis,
                                               hidden_size, n_layers, learn_basis_functions)
    IN  IF ~Binds(passed, MLP_keywords, FALSE, {"input_size", "output_size"})
        THEN Fail(Exc("TypeError", "MLP.__init__"))
        ELSE IF n_params_of(layers) # estimated
        THEN Fail(Exc("AssertionError", "MLP.__init__:63"))
        ELSE Ok(Module(layers, learn_basis_functions))

----------------------------------------------------------------------------
(* CNN (Architecture/CNN.py).                                              *)

CNN_predict_number_params(input_size, output_size, n_basis, hidden_size, n_layers) ==
    LET channels == input_size[1]
        height == input_size[2]
        width == input_size[3]
        nout == output_size[1] * n_basis
        ks == CNN_kernel_size
        flatten_size == 8 * channels * (height \div 8) * (width \div 8)
    IN  (ks * ks) * channels * (2 * channels) + 2 * channels
        + (ks * ks) * (2 * channels) * (4 * channels) + 4 * channels
        + (ks * ks) * (4 * channels) * (8 * channels) + 8 * channels
        + flatten_size * hidden_size + hidden_size
        + (hidden_size + 1) * hidden_size * (n_layers - 2)
        + (hidden_size + 1) * nout

CNN_layers(input_size, output_size, n_basis, hidden_size, n_layers) ==
    LET channels == input_size[1]
        height == input_size[2]
        width == input_size[3]
        nout == output_size[1] * n_basis
        flatten_size == 8 * channels * (height \div 8) * (width \div 8)
        hidden == [i \in PyRange(2 * (n_layers - 2)) |->
                      IF i % 2 = 1 THEN Linear(hidden_size, hidden_size) ELSE Activation]
    IN  <<Conv2d(channels, 2 * channels, CNN_kernel_size),
          Conv2d(2 * channels, 4 * channels, CNN_kernel_size),
          Conv2d(4 * channels, 8 * channels, CNN_kernel_size),
          Linear(flatten_size, hidden_size), Activation>>
        \o hidden \o <<Linear(hidden_size, nout)>>

CNN_keywords == {"input_size", "output_size", "n_basis", "hidden_size", "n_layers",
                 "activation"}

CNN_predict_keywords == {"input_size", "output_size", "n_basis", "hidden_size", "n_layers"}

\* CNN(**passedKw): the keywords are bound before the body runs.
CNN_init(input_size, output_size, n_basis, passedNames, kw) ==
    LET passed == passedNames \cup DOMAIN kw
        hidden_size == KwGet(kw, "hidden_size", CNN_default_hidden_size)
        n_layers == KwGet(kw, "n_layers", CNN_default_n_layers)
        layers == CNN_layers(input_size, output_size, n_basis, hidden_size, n_layers)
    IN  IF ~Binds(passed, CNN_keywords, FALSE, {"input_size", "output_size"})
        THEN Fail(Exc("TypeError", "CNN.__init__"))
        ELSE IF Len(input_size) # 3
        THEN Fail(Exc("AssertionError", "CNN.__init__:41"))
        ELSE IF input_size[1] > CNN_max_channels
        THEN Fail(Exc("AssertionError", "CNN.__init__:42"))
        ELSE IF n_params_of(layers) #
                  CNN_predict_number_params(input_size, output_size, n_basis,
                                            hidden_size, n_layers)
        THEN Fail(Exc("AssertionError", "CNN.__init__:78"))
        ELSE Ok(Module(layers, TRUE))

----------------------------------------------------------------------------
(* RepresentationEncoderDeepSets (Architecture/RepresentationEncoderDeepSets.py). *)

\* One of the two stacks (phi, rho): its linear and normalisation layers.
DeepSets_stack(nin, hidden_size, nout, n_layers, use_layer_norm) ==
    LET norm == IF use_layer_norm THEN <<LayerNorm(hidden_size)>> ELSE <<>>
        block(i) == <<Linear(IF i = 0 THEN nin ELSE hidden_size, hidden_size), Activation>>
                        \o norm
        RECURSIVE hidden(_)
        hidden(n) == IF n <= 0 THEN <<>> ELSE block(1) \o hidden(n - 1)
    IN  IF n_layers = 1
        THEN <<Linear(nin, nout)>>
        ELSE block(0) \o hidden(n_layers - 2) \o <<Linear(hidden_size, nout)>>

DeepSets_layers(input_size, output_size, n_basis, phi_hidden_size, phi_n_layers, rho_hidden_size, rho_n_layers, aggregation, use_layer_norm) ==
    LET phi_input_dim == Prod(input_size) + Prod(output_size)
        phi_output_dim == phi_hidden_size
    IN  DeepSets_stack(phi_input_dim, phi_hidden_size, phi_output_dim, phi_n_layers,
                       use_layer_norm)
        \o (IF aggregation = "attention" THEN <<Linear(phi_output_dim, 1)>> ELSE <<>>)
        \o DeepSets_stack(phi_output_dim, rho_hidden_size, n_basis, rho_n_layers,
                          use_layer_norm)

\* The count of one stack as the oracle sums it (lines 33-51 and 53-75).
DeepSets_predict_stack(nin, hidden_size, nout, n_layers, use_layer_norm) ==
    LET ln == IF use_layer_norm THEN 2 * hidden_size ELSE 0
        nhid == IF n_layers - 2 > 0 THEN n_layers - 2 ELSE 0
    IN  IF n_layers = 1
        THEN (nin + 1) * nout
        ELSE (nin + 1) * hidden_size + ln
             + nhid * ((hidden_size + 1) * hidden_size + ln)
             + (hidden_size + 1) * nout

DeepSets_predict_number_params(input_size, output_size, n_basis, kw) ==
    LET phi_hidden_size == KwGet(kw, "phi_hidden_size", Encoder_default_hidden_size)
        phi_n_layers == KwGet(kw, "phi_n_layers", Encoder_default_n_layers)
        rho_hidden_size == KwGet(kw, "rho_hidden_size", Encoder_default_hidden_size)
        rho_n_layers == KwGet(kw, "rho_n_layers", Encoder_default_n_layers)
        aggregation == KwGet(kw, "aggregation", "mean")
        use_layer_norm == KwGet(kw, "use_layer_norm", FALSE)
        phi_input_dim == Prod(input_size) + Prod(output_size)
        phi_output_dim == phi_hidden_size
    IN  DeepSets_predict_stack(phi_input_dim, phi_hidden_size, phi_output_dim,
                               phi_n_layers, use_layer_norm)
        + DeepSets_predict_stack(phi_output_dim, rho_hidden_size, n_basis,
                                 rho_n_layers, use_layer_norm)
        + (IF aggregation = "attention" THEN (phi_output_dim + 1) * 1 ELSE 0)

Aggregations == {"mean", "sum", "max", "attention"}

DeepSets_init(input_size, output_size, n_basis, kw) ==
    LET phi_hidden_size == KwGet(kw, "phi_hidden_size", Encoder_default_hidden_size)
        phi_n_layers == KwGet(kw, "phi_n_layers", Encoder_default_n_layers)
        rho_hidden_size == KwGet(kw, "rho_hidden_size", Encoder_default_hidden_size)
        rho_n_layers == KwGet(kw, "rho_n_layers", Encoder_default_n_layers)
        aggregation == KwGet(kw, "aggregation", "mean")
        use_layer_norm == KwGet(kw, "use_layer_norm", FALSE)
        layers == DeepSets_layers(input_size, output_size, n_basis, phi_hidden_size,
                                  phi_n_layers, rho_hidden_size, rho_n_layers,
                                  aggregation, use_layer_norm)
    IN  IF aggregation \notin Aggregations
        THEN Fail(Exc("ValueError", "RepresentationEncoderDeepSets.__init__:102"))
        ELSE IF n_params_of(layers) #
                  DeepSets_predict_number_params(input_size, output_size, n_basis, kw)
        THEN Fail(Exc("AssertionError", "RepresentationEncoderDeepSets.__init__:168"))
        ELSE Ok(Module(layers, FALSE))


----------------------------------------------------------------------------
(* FunctionEncoder: construction (Model/FunctionEncoder.py, __init__).     *)

DataTypes == {"deterministic", "stochastic", "categorical"}
RepresentationModes == {"inner_product", "least_squares", "encoder_network"}

\* The architectures _build_main_model knows by name (lines 136-157).
ModelTypes == {"MLP", "ParallelMLP", "Euclidean", "CNN"}

\* _build_main_model(model_type, model_kwargs, average_function) for the
\* architectures MLP and CNN, and for a name that is none of ModelTypes.
FE_build_main_model(a, average_function) ==
    CASE a.model_type = "MLP" ->
            MLP_init(a.input_size, a.output_size, a.n_basis, ~average_function,
                     a.model_kwargs)
      [] a.model_type = "CNN" ->
            CNN_init(a.input_size, a.output_size, a.n_basis,
                     {"input_size", "output_size", "n_basis", "learn_basis_functions"},
                     a.model_kwargs)
      [] a.model_type \notin ModelTypes ->
            Fail(Exc("ValueError", "FunctionEncoder._build_main_model:160"))

\* _build_encoder(encoder_type, encoder_kwargs)
FE_build_encoder(a) ==
    IF a.encoder_type = "RepresentationEncoderDeepSets"
    THEN DeepSets_init(a.input_size, a.output_size, a.n_basis, a.encoder_kwargs)
    ELSE Fail(Exc("ValueError", "FunctionEncoder._build_encoder:179"))

Value(v) == [exc |-> NoExc, value |-> v]
Raise(e) == [exc |-> e, value |-> 0]

\* FE_predict_main without the average function's share.
FE_predict_main_no_average(a) ==
    CASE a.model_type = "MLP" ->
            Value(MLP_predict_number_params(a.input_size, a.output_size, a.n_basis,
                      KwGet(a.model_kwargs, "hidden_size", MLP_default_hidden_size),
                      KwGet(a.model_kwargs, "n_layers", MLP_default_n_layers), TRUE))
      [] a.model_type = "CNN" -> Raise(Exc("TypeError", "CNN.predict_number_params"))
      [] OTHER -> Raise(Exc("ValueError", "FunctionEncoder.predict_number_params:764"))

\* The basis-network and average-function part of predict_number_params.
FE_predict_main(a) ==
    CASE a.model_type = "MLP" ->
            LET hs == KwGet(a.model_kwargs, "hidden_size", MLP_default_hidden_size)
                nl == KwGet(a.model_kwargs, "n_layers", MLP_default_n_layers)
            IN  Value(MLP_predict_number_params(a.input_size, a.output_size, a.n_basis,
                                                hs, nl, TRUE)
                      + (IF a.use_residuals_method
                         THEN MLP_predict_number_params(a.input_size, a.output_size,
                                                        a.n_basis, hs, nl, FALSE)
                         ELSE 0))
      [] a.model_type = "CNN" ->
            LET passed == {"input_size", "output_size", "n_basis", "learn_basis_functions"}
                              \cup DOMAIN a.model_kwargs
                hs == KwGet(a.model_kwargs, "hidden_size", 0)
                nl == KwGet(a.model_kwargs, "n_layers", 0)
                one == CNN_predict_number_params(a.input_size, a.output_size, a.n_basis,
                                                 hs, nl)
            IN  IF ~Binds(passed, CNN_predict_keywords, FALSE, CNN_predict_keywords)
                THEN Raise(Exc("TypeError", "CNN.predict_number_params"))
                ELSE Value(one + (IF a.use_residuals_method THEN one ELSE 0))
      [] OTHER -> Raise(Exc("ValueError", "FunctionEncoder.predict_number_params:764"))

\* FunctionEncoder.predict_number_params
FE_predict_number_params(a) ==
    LET main == FE_predict_main(a)
    IN  IF main.exc # NoExc
        THEN main
        ELSE IF a.representation_mode # "encoder_network"
        THEN main
        ELSE IF a.encoder_type # "RepresentationEncoderDeepSets"
        THEN Raise(Exc("ValueError", "FunctionEncoder.predict_number_params:773"))
        ELSE Value(main.value
                   + DeepSets_predict_number_params(a.input_size, a.output_size,
                                                    a.n_basis, a.encoder_kwargs))

\* Lines 64-77 without the assertion on data_type.
FE_init_precondition_any_data_type(a) ==
    CASE a.model_type = "MLP" /\ Len(a.input_size) # 1 -> "FunctionEncoder.__init__:65"
      [] a.model_type = "ParallelMLP" /\ Len(a.input_size) # 1 -> "FunctionEncoder.__init__:67"
      [] a.model_type = "CNN" /\ Len(a.input_size) # 3 -> "FunctionEncoder.__init__:69"
      [] Len(a.input_size) \notin {1, 3} -> "FunctionEncoder.__init__:72"
      [] a.input_size[1] < 1 -> "FunctionEncoder.__init__:73"
      [] Len(a.output_size) # 1 -> "FunctionEncoder.__init__:74"
      [] a.output_size[1] < 1 -> "FunctionEncoder.__init__:75"
      [] a.representation_mode \notin RepresentationModes -> "FunctionEncoder.__init__:77"
      [] OTHER -> "none"

\* The first assertion of lines 64-77 that fails, or "none".
FE_init_precondition(a) ==
    CASE a.model_type = "MLP" /\ Len(a.input_size) # 1 -> "FunctionEncoder.__init__:65"
      [] a.model_type = "ParallelMLP" /\ Len(a.input_size) # 1 -> "FunctionEncoder.__init__:67"
      [] a.model_type = "CNN" /\ Len(a.input_size) # 3 -> "FunctionEncoder.__init__:69"
      [] Len(a.input_size) \notin {1, 3} -> "FunctionEncoder.__init__:72"
      [] a.input_size[1] < 1 -> "FunctionEncoder.__init__:73"
      [] Len(a.output_size) # 1 -> "FunctionEncoder.__init__:74"
      [] a.output_size[1] < 1 -> "FunctionEncoder.__init__:75"
      [] a.data_type \notin DataTypes -> "FunctionEncoder.__init__:76"
      [] a.representation_mode \notin RepresentationModes -> "FunctionEncoder.__init__:77"
      [] OTHER -> "none"

\* The encoder object before __init__ has assigned anything.
NoEncoder ==
    [model |-> None, average_function |-> None, representation_encoder |-> None,
     opt |-> FALSE, n_params |-> 0, estimated_n_params |-> 0]

\* sum(p.numel() for p in self.parameters())
FE_n_params(obj) ==
    n_params_of(obj.model.layers) + n_params_of(obj.average_function.layers)
        + n_params_of(obj.representation_encoder.layers)

\* lines 64-78: the preconditions.
InitCheckArgs ==
    /\ ctor_pc = "start"
    /\ LET site == FE_init_precondition(args)
       IN  IF site # "none"
           THEN /\ raised' = Exc("AssertionError", site)
                /\ ctor_pc' = "raised"
           ELSE /\ raised' = raised
                /\ ctor_pc' = "build_model"
    /\ UNCHANGED <<args, fe, repVars, trainVars>>

\* line 88: self.model = self._build_main_model(model_type, model_kwargs)
InitBuildModel ==
    /\ ctor_pc = "build_model"
    /\ LET r == FE_build_main_model(args, FALSE)
       IN  IF r.exc # NoExc
           THEN /\ raised' = r.exc
                /\ ctor_pc' = "raised"
                /\ fe' = fe
           ELSE /\ fe' = [fe EXCEPT !.model = r.module]
                /\ ctor_pc' = "build_average"
                /\ raised' = raised
    /\ UNCHANGED <<args, repVars, trainVars>>

\* line 89: the average function, built only for the residuals method.
InitBuildAverage ==
    /\ ctor_pc = "build_average"
    /\ LET r == IF args.use_residuals_method
                THEN FE_build_main_model(args, TRUE)
                ELSE Ok(None)
       IN  IF r.exc # NoExc
           THEN /\ raised' = r.exc
                /\ ctor_pc' = "raised"
                /\ fe' = fe
           ELSE /\ fe' = [fe EXCEPT !.average_function = r.module]
                /\ ctor_pc' = "build_encoder"
                /\ raised' = raised
    /\ UNCHANGED <<args, repVars, trainVars>>

\* lines 90-92: the representation encoder, built only in encoder_network mode.
InitBuildEncoder ==
    /\ ctor_pc = "build_encoder"
    /\ LET r == IF args.representation_mode = "encoder_network"
                THEN FE_build_encoder(args)
                ELSE Ok(None)
       IN  IF r.exc # NoExc
           THEN /\ raised' = r.exc
                /\ ctor_pc' = "raised"
                /\ fe' = fe
           ELSE /\ fe' = [fe EXCEPT !.representation_encoder = r.module, !.opt = TRUE]
                /\ ctor_pc' = "verify"
                /\ raised' = raised
    /\ UNCHANGED <<args, repVars, trainVars>>

\* lines 111-124: the parameter count against the oracle.
InitVerifyParams ==
    /\ ctor_pc = "verify"
    /\ LET n == FE_n_params(fe)
           est == FE_predict_number_params(args)
       IN  IF est.exc # NoExc
           THEN /\ raised' = est.exc
                /\ ctor_pc' = "raised"
                /\ fe' = [fe EXCEPT !.n_params = n]
           ELSE /\ fe' = [fe EXCEPT !.n_params = n, !.estimated_n_params = est.value]
                /\ IF n = est.value
                   THEN /\ ctor_pc' = "constructed"
                        /\ raised' = raised
                   ELSE /\ ctor_pc' = "raised"
                        /\ raised' = Exc("AssertionError", "FunctionEncoder.__init__:124")
    /\ UNCHANGED <<args, repVars, trainVars>>

\* No method call in progress, and the variables of the method calls at rest.
NoCall == [op |-> "none"]
NoReturn == [exc |-> NoExc]
NoTheta == [model |-> <<>>]

RepUnused ==
    /\ this = NoEncoder
    /\ weights = NoTheta
    /\ rep_pc = "unused"
    /\ call = NoCall
    /\ ret = NoReturn

\* The parameter groups of an encoder, and gradients that hold nothing.
ParamGroups == {"model", "average_function", "representation_encoder"}
NoGrads == [p \in ParamGroups |-> {}]
NoCallback == [total_epochs |-> -1]
NoGraph ==
    [expected_yhats |-> {}, average_function_loss |-> {}, representation |-> {},
     gram |-> {}, y_hats |-> {}, prediction_loss |-> {}, norm_loss |-> {}, loss |-> {}]

TrainUnused ==
    /\ trainee = NoEncoder
    /\ tcall = NoCall
    /\ train_pc = "unused"
    /\ epoch = -1
    /\ log = <<>>
    /\ graph = NoGraph
    /\ grads = NoGrads
    /\ passes = <<>>
    /\ distance_callback = NoCallback
    /\ opt_steps = 0
    /\ calls = 0

----------------------------------------------------------------------------
(* The configurations an encoder is constructed with.                      *)

ImageSide == 8

\* {1, n}: the smallest size and the largest the bounds allow.
Ends(n) == {1, n}

ModelKwargs ==
    {[k \in S |-> IF k = "hidden_size" THEN h ELSE n] :
        S \in SUBSET {"hidden_size", "n_layers"}, h \in Ends(MaxHidden), n \in 1 .. MaxLayers}

EncoderKwargs ==
    {EmptyKwargs} \cup
    [phi_hidden_size : Ends(MaxHidden), phi_n_layers : 1 .. MaxLayers,
     rho_hidden_size : Ends(MaxHidden), rho_n_layers : 1 .. MaxLayers,
     aggregation : Aggregations, use_layer_norm : BOOLEAN]

ValidArgs ==
    {a \in [input_size : {<<1>>, <<2>>} \cup {<<c, ImageSide, ImageSide>> : c \in 1 .. MaxChannels},
            output_size : {<<1>>, <<2>>},
            data_type : DataTypes,
            n_basis : Ends(MaxBasis),
            model_type : {"MLP", "CNN"},
            model_kwargs : ModelKwargs,
            representation_mode : RepresentationModes,
            encoder_type : {"RepresentationEncoderDeepSets"},
            encoder_kwargs : EncoderKwargs,
            use_residuals_method : BOOLEAN] :
        /\ a.model_type = "MLP" <=> Len(a.input_size) = 1
        /\ a.representation_mode # "encoder_network" => a.encoder_kwargs = EmptyKwargs
        /\ a.encoder_kwargs # EmptyKwargs => a.data_type = "deterministic"}

\* What the arguments must be for lines 64-77 to let them pass.
WellFormedArgs(a) ==
    /\ a.data_type \in DataTypes
    /\ a.representation_mode \in RepresentationModes
    /\ Len(a.input_size) \in {1, 3}
    /\ a.model_type \in {"MLP", "ParallelMLP"} => Len(a.input_size) = 1
    /\ a.model_type = "CNN" => Len(a.input_size) = 3
    /\ a.input_size[1] >= 1
    /\ Len(a.output_size) = 1
    /\ a.output_size[1] >= 1

\* Arguments that break a requirement of lines 64-77, or name no
\* architecture.
RejectedArgs ==
    {a \in [input_size : {<<>>, <<0>>, <<1>>, <<1, 2>>, <<0, ImageSide, ImageSide>>,
                          <<1, ImageSide, ImageSide>>},
            output_size : {<<>>, <<0>>, <<1>>, <<1, 1>>},
            data_type : {"deterministic", "continuous"},
            n_basis : {1},
            model_type : ModelTypes \cup {"Transformer"},
            model_kwargs : {EmptyKwargs},
            representation_mode : {"least_squares", "gradient_descent"},
            encoder_type : {"RepresentationEncoderDeepSets"},
            encoder_kwargs : {EmptyKwargs},
            use_residuals_method : {FALSE}] :
        a.model_type \notin ModelTypes \/ ~WellFormedArgs(a)}

InitCtor ==
    /\ args \in ValidArgs
    /\ ctor_pc = "start"
    /\ fe = NoEncoder
    /\ raised = NoExc
    /\ RepUnused
    /\ TrainUnused

NextCtor ==
    \/ InitCheckArgs
    \/ InitBuildModel
    \/ InitBuildAverage
    \/ InitBuildEncoder
    \/ InitVerifyParams

SpecCtor == InitCtor /\ [][NextCtor]_vars

\* Construction from arguments of either kind.
InitCtorAnyArgs ==
    /\ args \in ValidArgs \cup RejectedArgs
    /\ ctor_pc = "start"
    /\ fe = NoEncoder
    /\ raised = NoExc
    /\ RepUnused
    /\ TrainUnused

SpecCtorAnyArgs == InitCtorAnyArgs /\ [][NextCtor]_vars

----------------------------------------------------------------------------
(* Construction: the parameter count against the oracle.                   *)

MLP_n_layers(a) == KwGet(a.model_kwargs, "n_layers", MLP_default_n_layers)

\* C1: for model_type 'MLP', every representation mode and both values of
\* use_residuals_method, once the networks are built their parameter count
\* equals predict_number_params (basis count, plus the average-function count
\* iff residuals are on, plus the encoder count iff the mode is
\* encoder_network): the assertion of line 124 never fails, and an encoder
\* is constructed for every MLP of two or more layers (an MLP of one layer
\* is rejected by the MLP's own count check before the encoder's).
C1_ParamCountMatchesOracle ==
    args.model_type = "MLP" =>
        /\ raised.at # "FunctionEncoder.__init__:124"
        /\ ctor_pc \in {"verify", "constructed"} =>
              /\ FE_predict_number_params(args).exc = NoExc
              /\ FE_n_params(fe) = FE_predict_number_params(args).value
              /\ fe.model.built
              /\ fe.average_function.built <=> args.use_residuals_method
              /\ fe.representation_encoder.built <=>
                    args.representation_mode = "encoder_network"
              /\ FE_n_params(fe) =
                    n_params_of(fe.model.layers)
                    + (IF args.use_residuals_method
                       THEN n_params_of(fe.average_function.layers) ELSE 0)
                    + (IF args.representation_mode = "encoder_network"
                       THEN n_params_of(fe.representation_encoder.layers) ELSE 0)
        /\ ctor_pc = "raised" =>
              /\ MLP_n_layers(args) < 2
              /\ raised = Exc("AssertionError", "MLP.__init__:63")

\* An MLP encoder with an average function and an attention encoder is constructed.
C1_Witness ==
    /\ ctor_pc = "constructed"
    /\ args.model_type = "MLP"
    /\ args.use_residuals_method
    /\ args.representation_mode = "encoder_network"
    /\ KwGet(args.encoder_kwargs, "aggregation", "mean") = "attention"
    /\ fe.n_params = fe.estimated_n_params
    /\ fe.n_params > 0

\* C2: for model_type 'CNN' with a 3-D input_size of at most 4 channels,
\* construction succeeds in every mode, with and without residuals, and
\* the parameter count equals predict_number_params.
C2_CNNConstructs ==
    (/\ args.model_type = "CNN"
     /\ Len(args.input_size) = 3
     /\ args.input_size[1] <= CNN_max_channels
     /\ ctor_pc \in {"constructed", "raised"})
        => /\ ctor_pc = "constructed"
           /\ fe.n_params = fe.estimated_n_params
           /\ fe.average_function.built <=> args.use_residuals_method

----------------------------------------------------------------------------
(* Exact rational scalars [n |-> numerator, d |-> denominator > 0], kept in *)
(* lowest terms; tensor entries are such scalars.                          *)

Abs(i) == IF i < 0 THEN -i ELSE i

RECURSIVE GCD(_, _)
GCD(a, b) == IF b = 0 THEN a ELSE GCD(b, a % b)

Q(n, d) ==
    LET g == GCD(Abs(n), Abs(d))
        sgn == IF d < 0 THEN -1 ELSE 1
    IN  [n |-> (sgn * n) \div g, d |-> (sgn * d) \div g]

QInt(i) == [n |-> i, d |-> 1]
QZero == QInt(0)
QOne == QInt(1)
QAdd(a, b) ==
    LET g == GCD(a.d, b.d)
    IN  Q(a.n * (b.d \div g) + b.n * (a.d \div g), (a.d \div g) * b.d)
QSub(a, b) == QAdd(a, [n |-> -b.n, d |-> b.d])
QMul(a, b) ==
    LET g1 == GCD(Abs(a.n), b.d)
        g2 == GCD(Abs(b.n), a.d)
    IN  IF a.n = 0 \/ b.n = 0 THEN [n |-> 0, d |-> 1]
        ELSE [n |-> (a.n \div g1) * (b.n \div g2), d |-> (a.d \div g2) * (b.d \div g1)]
QDiv(a, b) == QMul(a, IF b.n < 0 THEN [n |-> -b.d, d |-> -b.n] ELSE [n |-> b.d, d |-> b.n])
QNeg(a) == [n |-> -a.n, d |-> a.d]
QLess(a, b) == a.n * b.d < b.n * a.d
QMax(a, b) == IF QLess(a, b) THEN b ELSE a
QRelu(a) == IF a.n < 0 THEN QZero ELSE a

\* The sum of f[i] over the finite set S of indices.
RECURSIVE QSum(_, _)
QSum(f, S) ==
    IF S = {} THEN QZero
    ELSE LET i == CHOOSE j \in S : TRUE IN QAdd(f[i], QSum(f, S \ {i}))

----------------------------------------------------------------------------
(* torch tensors: a shape and one scalar per index tuple.                  *)

RECURSIVE Idx(_)
Idx(shape) ==
    IF shape = <<>> THEN {<<>>}
    ELSE {<<i>> \o r : i \in 1 .. Head(shape), r \in Idx(Tail(shape))}

Tensor(shape, f) == [shape |-> shape, data |-> [ix \in Idx(shape) |-> f[ix]]]

Rank(t) == Len(t.shape)

\* t.shape[-n:] and t.shape[:-n]
LastDims(shape, n) == SubSeq(shape, Len(shape) - n + 1, Len(shape))
LeadDims(shape, n) == SubSeq(shape, 1, Len(shape) - n)

\* seq without its i-th element, and with v inserted before position i.
DropAt(seq, i) == SubSeq(seq, 1, i - 1) \o SubSeq(seq, i + 1, Len(seq))
InsertAt(seq, i, v) == SubSeq(seq, 1, i - 1) \o <<v>> \o SubSeq(seq, i, Len(seq))

\* t.unsqueeze(dim), dim counted from 1; Len(shape) + 1 appends an axis.
unsqueeze(t, dim) ==
    LET shape == InsertAt(t.shape, dim, 1)
    IN  [shape |-> shape, data |-> [ix \in Idx(shape) |-> t.data[DropAt(ix, dim)]]]

\* t.squeeze(dim): removes the axis when its size is 1, else leaves t as it is.
squeeze(t, dim) ==
    IF t.shape[dim] # 1 THEN t
    ELSE LET shape == DropAt(t.shape, dim)
         IN  [shape |-> shape, data |-> [ix \in Idx(shape) |-> t.data[InsertAt(ix, dim, 1)]]]

\* The index of a broadcast operand: axes of size 1 are read at 1.
RECURSIVE BroadcastIx(_, _)
BroadcastIx(shape, ix) ==
    IF shape = <<>> THEN <<>>
    ELSE <<IF Head(shape) = 1 THEN 1 ELSE Head(ix)>> \o BroadcastIx(Tail(shape), Tail(ix))

\* a - b and a + b, b broadcast over the axes where it has size 1.
tsub(a, b) ==
    [shape |-> a.shape,
     data |-> [ix \in Idx(a.shape) |-> QSub(a.data[ix], b.data[BroadcastIx(b.shape, ix)])]]

tadd(a, b) ==
    [shape |-> a.shape,
     data |-> [ix \in Idx(a.shape) |-> QAdd(a.data[ix], b.data[BroadcastIx(b.shape, ix)])]]

\* torch.mean(t, dim=dim, keepdim=True)
mean_keepdim(t, dim) ==
    LET shape == [i \in 1 .. Len(t.shape) |-> IF i = dim THEN 1 ELSE t.shape[i]]
        n == t.shape[dim]
    IN  [shape |-> shape,
         data |-> [ix \in Idx(shape) |->
                     QDiv(QSum([j \in 1 .. n |-> t.data[InsertAt(DropAt(ix, dim), dim, j)]], 1 .. n),
                          QInt(n))]]

\* torch.mean(t, dim=dim)
mean(t, dim) == squeeze(mean_keepdim(t, dim), dim)

\* An einsum that puts the basis axis of b first: "fdmk,fdml->fdlk".
einsum_fdmk_fdml_to_fdlk(a, b) ==
    LET shape == <<a.shape[1], a.shape[2], b.shape[4], a.shape[4]>>
        M == a.shape[3]
    IN  [shape |-> shape,
         data |-> [ix \in Idx(shape) |->
                     QSum([m \in 1 .. M |->
                              QMul(a.data[<<ix[1], ix[2], m, ix[4]>>],
                                   b.data[<<ix[1], ix[2], m, ix[3]>>])], 1 .. M)]]

\* torch.einsum("fdmk,fdml->fdkl", a, b)
einsum_fdmk_fdml(a, b) ==
    LET shape == <<a.shape[1], a.shape[2], a.shape[4], b.shape[4]>>
        M == a.shape[3]
    IN  [shape |-> shape,
         data |-> [ix \in Idx(shape) |->
                     QSum([m \in 1 .. M |->
                              QMul(a.data[<<ix[1], ix[2], m, ix[3]>>],
                                   b.data[<<ix[1], ix[2], m, ix[4]>>])], 1 .. M)]]

\* torch.einsum("fdmk,fk->fdm", Gs, c)
einsum_fdmk_fk(Gs, c) ==
    LET shape == <<Gs.shape[1], Gs.shape[2], Gs.shape[3]>>
        K == Gs.shape[4]
    IN  [shape |-> shape,
         data |-> [ix \in Idx(shape) |->
                     QSum([k \in 1 .. K |->
                              QMul(Gs.data[ix \o <<k>>], c.data[<<ix[1], k>>])], 1 .. K)]]

----------------------------------------------------------------------------
(* The inner products (FunctionEncoder.py, lines 250-438).                 *)

\* The shape assertions shared by the four entry points: the first that
\* fails, or "none".
IP_shape_error(fs, gs, where) ==
    CASE Rank(fs) \notin {3, 4} -> where \o ":rank_fs"
      [] Rank(gs) \notin {3, 4} -> where \o ":rank_gs"
      [] fs.shape[1] # gs.shape[1] -> where \o ":n_functions"
      [] fs.shape[2] # gs.shape[2] -> where \o ":n_datapoints"
      [] fs.shape[3] # gs.shape[3] -> where \o ":output_size"
      [] OTHER -> "none"

\* lines 273-279: an operand of rank 3 gets a basis axis of size 1.
IP_with_basis_axis(t) == IF Rank(t) = 3 THEN unsqueeze(t, 4) ELSE t

\* lines 322-326 and 369-373: the operand less its mean over centre_dim
\* (0: not centred).
IP_centred(t, centre_dim) ==
    IF centre_dim = 0 THEN t ELSE tsub(t, mean_keepdim(t, centre_dim))

\* lines 285-289: the axes that were added are taken off again.
IP_undo_reshaping(unsqueezed_fs, unsqueezed_gs, inner_product) ==
    IF unsqueezed_fs /\ unsqueezed_gs THEN squeeze(squeeze(inner_product, 2), 2)
    ELSE IF unsqueezed_fs THEN squeeze(inner_product, 2)
    ELSE IF unsqueezed_gs THEN squeeze(inner_product, 3)
    ELSE inner_product

\* lines 272-290: unsqueeze a missing basis axis, einsum, mean over the
\* datapoints, squeeze the axes that were added.
IP_contract(fs, gs, centre_dim) ==
    IP_undo_reshaping(Rank(fs) = 3, Rank(gs) = 3,
        mean(einsum_fdmk_fdml(IP_centred(IP_with_basis_axis(fs), centre_dim),
                              IP_centred(IP_with_basis_axis(gs), centre_dim)), 2))

_deterministic_inner_product(fs, gs) == IP_contract(fs, gs, 0)

\* A stochastic inner product centred over the functions of the batch.
_stochastic_inner_product_over_functions(fs, gs) == IP_contract(fs, gs, 1)

\* centred over the datapoint axis (dim=1 of the source, counted from 0)
_stochastic_inner_product(fs, gs) == IP_contract(fs, gs, 2)

\* A categorical inner product centred over the datapoints instead.
_categorical_inner_product_over_datapoints(fs, gs) == IP_contract(fs, gs, 2)

\* centred over the category axis (dim=2 of the source)
_categorical_inner_product(fs, gs) == IP_contract(fs, gs, 3)

\* lines 266-270 and 353-357: the assertions of the deterministic and the
\* categorical variant.
_deterministic_inner_product_error(fs, gs) ==
    IP_shape_error(fs, gs, "_deterministic_inner_product")

_categorical_inner_product_error(fs, gs) ==
    IP_shape_error(fs, gs, "_categorical_inner_product")

\* A stochastic variant that accepts every output size the operands share.
_stochastic_inner_product_error_any_output_size(fs, gs) ==
    IP_shape_error(fs, gs, "_stochastic_inner_product")

\* lines 306-310: line 310 asserts fs.shape[2] == gs.shape[2] == 1.
_stochastic_inner_product_error(fs, gs) ==
    IF IP_shape_error(fs, gs, "_stochastic_inner_product") # "none"
    THEN IP_shape_error(fs, gs, "_stochastic_inner_product")
    ELSE IF fs.shape[3] # 1 THEN "_stochastic_inner_product:output_size"
    ELSE "none"

\* The assertion that stops _inner_product(fs, gs), or "none": its own
\* (lines 399-403), then those of the variant it passes the operands to.
_inner_product_error(data_type, fs, gs) ==
    IF IP_shape_error(fs, gs, "_inner_product") # "none"
    THEN IP_shape_error(fs, gs, "_inner_product")
    ELSE CASE data_type = "deterministic" -> _deterministic_inner_product_error(fs, gs)
           [] data_type = "stochastic" -> _stochastic_inner_product_error(fs, gs)
           [] data_type = "categorical" -> _categorical_inner_product_error(fs, gs)

_inner_product(data_type, fs, gs) ==
    CASE data_type = "deterministic" -> _deterministic_inner_product(fs, gs)
      [] data_type = "stochastic" -> _stochastic_inner_product(fs, gs)
      [] data_type = "categorical" -> _categorical_inner_product(fs, gs)

_norm_squared(data_type, fs) == _inner_product(data_type, fs, fs)

_distance_squared(data_type, fs, gs) == _norm_squared(data_type, tsub(fs, gs))

\* t.sqrt(), entry by entry: the root is kept as its radicand, and is NaN
\* when the radicand is negative.
sqrt(t) ==
    [shape |-> t.shape,
     data |-> [ix \in Idx(t.shape) |-> [sqrt_of |-> t.data[ix], nan |-> t.data[ix].n < 0]]]

\* lines 423-427
_norm(data_type, fs, squared) ==
    IF squared THEN _norm_squared(data_type, fs) ELSE sqrt(_norm_squared(data_type, fs))

\* line 438
_distance(data_type, fs, gs, squared) == _norm(data_type, tsub(fs, gs), squared)

----------------------------------------------------------------------------
(* The networks as functions of their parameters.  The basis network and   *)
(* the average function are MLPs of n_layers = 2 and hidden_size = 1 with  *)
(* relu; the DeepSets encoder has phi_n_layers = rho_n_layers = 1 and      *)
(* phi_hidden_size = 1, so phi and rho are single linear layers.           *)

\* self.model(x) for one input point: Linear, ReLU, Linear.
MLP_apply(theta, x) ==
    LET n == Len(x)
        pre == QAdd(QSum([i \in 1 .. n |-> QMul(QInt(theta.w1[i]), x[i])], 1 .. n),
                    QInt(theta.b1))
        h == QRelu(pre)
    IN  [j \in 1 .. Len(theta.w2) |-> QAdd(QMul(QInt(theta.w2[j]), h), QInt(theta.b2[j]))]

\* MLP.forward, line 67: the assertion on the last axis.
MLP_forward_error(net, x) ==
    IF Rank(x) = 0 \/ x.shape[Rank(x)] # net.input_size[1] THEN "MLP.forward:67" ELSE "none"

\* MLP.forward, lines 68-75: x with a function and a datapoint axis.
MLP_reshape(x) ==
    CASE Rank(x) = 1 -> unsqueeze(unsqueeze(x, 1), 1)
      [] Rank(x) = 2 -> unsqueeze(x, 1)
      [] OTHER -> x

\* lines 78-82: the network at every point, viewed as (F, D, M, K), or as
\* (F, D, M) for a network that is no basis.
MLP_outputs(net, theta, x3) ==
    IF net.learn_basis_functions
    THEN [shape |-> <<x3.shape[1], x3.shape[2], net.output_size[1], net.n_basis>>,
          data |-> [ix \in Idx(<<x3.shape[1], x3.shape[2], net.output_size[1], net.n_basis>>) |->
                      MLP_apply(theta, [i \in 1 .. x3.shape[3] |-> x3.data[<<ix[1], ix[2], i>>]])
                          [(ix[3] - 1) * net.n_basis + ix[4]]]]
    ELSE [shape |-> <<x3.shape[1], x3.shape[2], net.output_size[1]>>,
          data |-> [ix \in Idx(<<x3.shape[1], x3.shape[2], net.output_size[1]>>) |->
                      MLP_apply(theta, [i \in 1 .. x3.shape[3] |-> x3.data[<<ix[1], ix[2], i>>]])
                          [ix[3]]]]

\* lines 85-88: the axes that were added are taken off again.
MLP_undo_reshape(rank, Gs) ==
    CASE rank = 1 -> squeeze(squeeze(Gs, 1), 1)
      [] rank = 2 -> squeeze(Gs, 1)
      [] OTHER -> Gs

\* MLP.forward for x of rank 1, 2 or 3.
MLP_forward(net, theta, x) ==
    MLP_undo_reshape(Rank(x), MLP_outputs(net, theta, MLP_reshape(x)))

\* RepresentationEncoderDeepSets.forward (aggregation mean, sum or max).
DeepSets_forward(enc, theta, example_xs, example_ys) ==
    LET n_functions == example_xs.shape[1]
        n_datapoints == example_xs.shape[2]
        nx == Prod(enc.input_size)
        ny == Prod(enc.output_size)
        combined(f, d) == [i \in 1 .. nx + ny |->
                              IF i <= nx THEN example_xs.data[<<f, d, i>>]
                              ELSE example_ys.data[<<f, d, i - nx>>]]
        phi_output(f, d) ==
            QAdd(QSum([i \in 1 .. nx + ny |-> QMul(QInt(theta.phi_w[i]), combined(f, d)[i])],
                      1 .. nx + ny),
                 QInt(theta.phi_b))
        RECURSIVE maxOver(_, _)
        maxOver(f, d) == IF d = 1 THEN phi_output(f, 1)
                         ELSE QMax(maxOver(f, d - 1), phi_output(f, d))
        total(f) == QSum([d \in 1 .. n_datapoints |-> phi_output(f, d)], 1 .. n_datapoints)
        aggregated(f) ==
            CASE enc.aggregation = "mean" -> QDiv(total(f), QInt(n_datapoints))
              [] enc.aggregation = "sum" -> total(f)
              [] enc.aggregation = "max" -> maxOver(f, n_datapoints)
        shape == <<n_functions, enc.n_basis>>
    IN  [shape |-> shape,
         data |-> [ix \in Idx(shape) |->
                     QAdd(QMul(QInt(theta.rho_w[ix[2]]), aggregated(ix[1])),
                          QInt(theta.rho_b[ix[2]]))]]

----------------------------------------------------------------------------
(* Square matrices over the rationals, indexed by <<row, column>>.         *)

Minor(A, n, i, j) ==
    [rc \in (1 .. n - 1) \X (1 .. n - 1) |->
        A[<<IF rc[1] < i THEN rc[1] ELSE rc[1] + 1, IF rc[2] < j THEN rc[2] ELSE rc[2] + 1>>]]

Sign(i) == IF i % 2 = 0 THEN QOne ELSE QInt(-1)

RECURSIVE Det(_, _)
Det(A, n) ==
    IF n = 1 THEN A[<<1, 1>>]
    ELSE QSum([j \in 1 .. n |->
                  QMul(QMul(Sign(1 + j), A[<<1, j>>]), Det(Minor(A, n, 1, j), n - 1))],
              1 .. n)

\* The inverse of a non-singular matrix: the adjugate over the determinant.
Inverse(A, n) ==
    IF n = 1 THEN [rc \in {<<1, 1>>} |-> QDiv(QOne, A[<<1, 1>>])]
    ELSE LET det == Det(A, n)
         IN  [rc \in (1 .. n) \X (1 .. n) |->
                 QDiv(QMul(Sign(rc[1] + rc[2]), Det(Minor(A, n, rc[2], rc[1]), n - 1)), det)]

\* gram[f] as a matrix
MatrixOf(t, f, n) == [rc \in (1 .. n) \X (1 .. n) |-> t.data[<<f, rc[1], rc[2]>>]]

----------------------------------------------------------------------------
(* The representation solvers, compute_representation and predict.         *)

lambd_default_denominator == 1000

\* A default of 1e-2.
lambd_default_hundredth == [n |-> 1, d |-> 100]

\* lambd = 1e-3 (line 488)
lambd_default == [n |-> 1, d |-> lambd_default_denominator]

\* The function f on S with every value computed.
RECURSIVE Entries(_, _)
Entries(f, S) ==
    IF S = {} THEN <<>>
    ELSE LET i == CHOOSE j \in S : TRUE IN (i :> f[i]) @@ Entries(f, S \ {i})

\* The tensor t as torch holds it: every entry a computed number.
Evaluated(t) == [shape |-> t.shape, data |-> Entries(t.data, Idx(t.shape))]

NoTensor == [shape |-> <<0>>, data |-> [ix \in {} |-> QZero]]

BasisNet(enc) ==
    [input_size |-> enc.input_size, output_size |-> enc.output_size,
     n_basis |-> enc.n_basis, learn_basis_functions |-> TRUE]

AverageNet(enc) ==
    [input_size |-> enc.input_size, output_size |-> enc.output_size,
     n_basis |-> enc.n_basis, learn_basis_functions |-> FALSE]

\* self.model.forward(xs) and self.average_function.forward(xs)
forward_basis_functions(enc, theta, xs) == MLP_forward(BasisNet(enc), theta.model, xs)
forward_average_function(enc, theta, xs) ==
    MLP_forward(AverageNet(enc), theta.average_function, xs)

\* lines 453-457 and 479-483: the assertions on Gs and example_ys.
solver_shape_error(Gs, example_ys, where) ==
    CASE Rank(Gs) # 4 -> where \o ":rank_Gs"
      [] Rank(example_ys) # 3 -> where \o ":rank_example_ys"
      [] Gs.shape[1] # example_ys.shape[1] -> where \o ":n_functions"
      [] Gs.shape[2] # example_ys.shape[2] -> where \o ":n_datapoints"
      [] Gs.shape[3] # example_ys.shape[3] -> where \o ":output_size"
      [] OTHER -> "none"

_compute_inner_product_representation_error(enc, Gs, example_ys) ==
    IF solver_shape_error(Gs, example_ys, "_compute_inner_product_representation") # "none"
    THEN solver_shape_error(Gs, example_ys, "_compute_inner_product_representation")
    ELSE _inner_product_error(enc.data_type, Gs, example_ys)

_compute_inner_product_representation(enc, Gs, example_ys) ==
    _inner_product(enc.data_type, Gs, example_ys)

\* gram + lambd * torch.eye(n_basis)
gram_regularized(enc, gram, lambd) ==
    [shape |-> gram.shape,
     data |-> [ix \in Idx(gram.shape) |->
                 IF ix[2] = ix[3] THEN QAdd(gram.data[ix], lambd) ELSE gram.data[ix]]]

\* A solver that takes the default whatever lambd it is given.
LS_lambd_default_only(kw) == lambd_default

\* lines 487-488: the lambd of the keyword arguments, 1e-3 when it is None.
LS_lambd(kw) == IF "lambd" \in DOMAIN kw THEN kw.lambd ELSE lambd_default

\* line 498: torch.linalg.inv raises on a singular matrix.
LS_singular(gram_reg) ==
    \E f \in 1 .. gram_reg.shape[1] :
        Det(MatrixOf(gram_reg, f, gram_reg.shape[2]), gram_reg.shape[2]) = QZero

\* What stops _compute_least_squares_representation(Gs, example_ys, **kw):
\* a keyword it does not take, an assertion, or a singular matrix.
_compute_least_squares_representation_error(enc, Gs, example_ys, kw) ==
    IF ~(DOMAIN kw \subseteq {"lambd"})
    THEN Exc("TypeError", "_compute_least_squares_representation")
    ELSE IF solver_shape_error(Gs, example_ys, "_compute_least_squares_representation") # "none"
    THEN Exc("AssertionError",
             solver_shape_error(Gs, example_ys, "_compute_least_squares_representation"))
    ELSE IF "lambd" \in DOMAIN kw /\ kw.lambd.n < 0
    THEN Exc("AssertionError", "_compute_least_squares_representation:484")
    ELSE IF _inner_product_error(enc.data_type, Gs, Gs) # "none"
    THEN Exc("AssertionError", _inner_product_error(enc.data_type, Gs, Gs))
    ELSE IF LS_singular(Evaluated(gram_regularized(enc,
                                                   _inner_product(enc.data_type, Gs, Gs),
                                                   LS_lambd(kw))))
    THEN Exc("LinAlgError", "_compute_least_squares_representation:498")
    ELSE NoExc

\* line 498: torch.einsum("fkl,fl->fk", gram_inv, ip_representation)
LS_solve(gram_reg, ip_representation) ==
    [shape |-> <<gram_reg.shape[1], gram_reg.shape[2]>>,
     data |-> [ix \in Idx(<<gram_reg.shape[1], gram_reg.shape[2]>>) |->
                 QSum([l \in 1 .. gram_reg.shape[2] |->
                          QMul(Inverse(MatrixOf(gram_reg, ix[1], gram_reg.shape[2]),
                                       gram_reg.shape[2])[<<ix[2], l>>],
                               ip_representation.data[<<ix[1], l>>])],
                      1 .. gram_reg.shape[2])]]

LS_result(enc, gram, ip_representation, lambd) ==
    [representation |-> LS_solve(Evaluated(gram_regularized(enc, gram, lambd)),
                                 Evaluated(ip_representation)),
     gram |-> gram]

\* lines 486-499: [representation, gram]
_compute_least_squares_representation(enc, Gs, example_ys, kw) ==
    LS_result(enc, _inner_product(enc.data_type, Gs, Gs),
              _inner_product(enc.data_type, Gs, example_ys), LS_lambd(kw))

\* What compute_representation returns, with the tensors it handed to the
\* solver (solver_ys) and to the representation encoder (encoder_ys).
CR_result(e, representation, gram, solver_ys, encoder_ys) ==
    [exc |-> e, representation |-> representation, gram |-> gram,
     solver_ys |-> solver_ys, encoder_ys |-> encoder_ys]

CR_raise(e) == CR_result(e, NoTensor, NoTensor, NoTensor, NoTensor)

\* lines 207-209: the first assertion that fails, or "none".
compute_representation_precondition(enc, example_xs, example_ys) ==
    LET ni == Len(enc.input_size)
        no == Len(enc.output_size)
    IN  CASE Rank(example_xs) < ni \/ LastDims(example_xs.shape, ni) # enc.input_size ->
                "compute_representation:207"
          [] Rank(example_ys) < no \/ LastDims(example_ys.shape, no) # enc.output_size ->
                "compute_representation:208"
          [] LeadDims(example_xs.shape, ni) # LeadDims(example_ys.shape, no) ->
                "compute_representation:209"
          [] OTHER -> "none"

\* The examples handed on without the subtraction.
residual_example_ys_direct(enc, theta, xs, ys) == ys

\* lines 218-223: under torch.no_grad(), the examples minus the average
\* function's output; without an average function, the examples.
residual_example_ys(enc, theta, xs, ys) ==
    IF enc.use_residuals_method THEN tsub(ys, forward_average_function(enc, theta, xs)) ELSE ys

\* An encoder that is given the residuals.
encoder_example_ys_residuals(enc, theta, xs, ys) == ys

\* lines 235-241: what the representation encoder is given.
encoder_example_ys(enc, theta, xs, ys) ==
    IF enc.use_residuals_method THEN tadd(ys, forward_average_function(enc, theta, xs)) ELSE ys

\* A representation that keeps the function axis.
unwrap_representation_kept(reshaped, representation) == representation

\* lines 244-246: the function axis added at lines 212-216 is taken off again.
unwrap_representation(reshaped, representation) ==
    IF reshaped THEN squeeze(representation, 1) ELSE representation

\* lines 229-230: the inner-product solver.
CR_inner_product(reshaped, err, representation, ys) ==
    IF err # "none" THEN CR_raise(Exc("AssertionError", err))
    ELSE CR_result(NoExc, unwrap_representation(reshaped, representation),
                   NoTensor, ys, NoTensor)

\* lines 231-232: the least-squares solver.
CR_least_squares(reshaped, err, r, ys) ==
    IF err # NoExc THEN CR_raise(err)
    ELSE CR_result(NoExc, unwrap_representation(reshaped, r.representation),
                   r.gram, ys, NoTensor)

\* lines 233-240: the representation encoder.
CR_encoder_network(enc, theta, reshaped, xs, original_example_ys) ==
    CR_result(NoExc,
              unwrap_representation(reshaped,
                  DeepSets_forward(enc, theta.representation_encoder, xs, original_example_ys)),
              NoTensor, NoTensor, original_example_ys)

\* lines 225-247: the basis functions on the examples, and the solver of the mode.
CR_dispatch(enc, theta, reshaped, xs, ys, Gs, kw) ==
    CASE enc.representation_mode = "inner_product" ->
            CR_inner_product(reshaped,
                             _compute_inner_product_representation_error(enc, Gs, ys),
                             _compute_inner_product_representation(enc, Gs, ys), ys)
      [] enc.representation_mode = "least_squares" ->
            CR_least_squares(reshaped,
                             _compute_least_squares_representation_error(enc, Gs, ys, kw),
                             _compute_least_squares_representation(enc, Gs, ys, kw), ys)
      [] enc.representation_mode = "encoder_network" ->
            CR_encoder_network(enc, theta, reshaped, xs,
                               encoder_example_ys(enc, theta, xs, ys))

\* lines 218-226: the residuals and the basis functions on the examples.
CR_wrapped(enc, theta, reshaped, xs, ys, kw) ==
    CR_dispatch(enc, theta, reshaped, xs, residual_example_ys(enc, theta, xs, ys),
                forward_basis_functions(enc, theta, xs), kw)

\* compute_representation(example_xs, example_ys, **kw), lines 211-248, for
\* examples with one or two leading axes.
compute_representation_body(enc, theta, example_xs, example_ys, kw) ==
    IF Rank(example_xs) - Len(enc.input_size) = 1
    THEN CR_wrapped(enc, theta, TRUE, unsqueeze(example_xs, 1), unsqueeze(example_ys, 1), kw)
    ELSE CR_wrapped(enc, theta, FALSE, example_xs, example_ys, kw)

compute_representation(enc, theta, example_xs, example_ys, kw) ==
    IF compute_representation_precondition(enc, example_xs, example_ys) # "none"
    THEN CR_raise(Exc("AssertionError",
                      compute_representation_precondition(enc, example_xs, example_ys)))
    ELSE compute_representation_body(enc, theta, example_xs, example_ys, kw)

\* What predict returns: the exception or y_hats.
P_result(e, y_hats) == [exc |-> e, y_hats |-> y_hats]

\* lines 516-518 and the forward's own assertion.
predict_precondition(enc, query_xs, representations) ==
    CASE Rank(query_xs) # 2 + Len(enc.input_size) -> "predict:516"
      [] Rank(representations) # 2 -> "predict:517"
      [] query_xs.shape[1] # representations.shape[1] -> "predict:518"
      [] OTHER -> MLP_forward_error(BasisNet(enc), query_xs)

\* A predict that adds a supplied precomputed_average_ys whether or not
\* there is an average function.
predict_body_adds_supplied(enc, theta, query_xs, y_hats, precomputed_average_ys) ==
    IF precomputed_average_ys # NoTensor THEN tadd(y_hats, precomputed_average_ys)
    ELSE IF ~enc.use_residuals_method THEN y_hats
    ELSE tadd(y_hats, forward_average_function(enc, theta, query_xs))

\* lines 521-531: the networks predict runs forward.
predict_forwards(enc, precomputed_average_ys) ==
    {"model"} \cup (IF enc.use_residuals_method /\ precomputed_average_ys = NoTensor
                    THEN {"average_function"} ELSE {})

\* lines 521-533
predict_body(enc, theta, query_xs, y_hats, precomputed_average_ys) ==
    IF ~enc.use_residuals_method THEN y_hats
    ELSE IF precomputed_average_ys # NoTensor THEN tadd(y_hats, precomputed_average_ys)
    ELSE tadd(y_hats, forward_average_function(enc, theta, query_xs))

\* predict(query_xs, representations, precomputed_average_ys); a
\* precomputed_average_ys of NoTensor stands for None.
predict(enc, theta, query_xs, representations, precomputed_average_ys) ==
    IF predict_precondition(enc, query_xs, representations) # "none"
    THEN P_result(Exc("AssertionError", predict_precondition(enc, query_xs, representations)),
                  NoTensor)
    ELSE P_result(NoExc,
                  predict_body(enc, theta, query_xs,
                               einsum_fdmk_fk(forward_basis_functions(enc, theta, query_xs),
                                              representations),
                               precomputed_average_ys))

\* The assertions of predict_from_examples without those on the ranks.
predict_from_examples_precondition_any_rank(enc, example_xs, example_ys, query_xs) ==
    LET ni == Len(enc.input_size)
        no == Len(enc.output_size)
    IN  CASE LastDims(example_xs.shape, ni) # enc.input_size -> "predict_from_examples:555"
          [] LastDims(example_ys.shape, no) # enc.output_size -> "predict_from_examples:556"
          [] LastDims(query_xs.shape, ni) # enc.input_size -> "predict_from_examples:557"
          [] example_xs.shape[1] # example_ys.shape[1] -> "predict_from_examples:558"
          [] example_xs.shape[1] # query_xs.shape[1] -> "predict_from_examples:560"
          [] OTHER -> "none"

\* The assertions of lines 552-560 without line 560, the one on the
\* functions of query_xs.
predict_from_examples_precondition_no_query(enc, example_xs, example_ys, query_xs) ==
    LET ni == Len(enc.input_size)
        no == Len(enc.output_size)
    IN  CASE Rank(example_xs) # 2 + ni -> "predict_from_examples:552"
          [] Rank(example_ys) # 2 + no -> "predict_from_examples:553"
          [] Rank(query_xs) # 2 + ni -> "predict_from_examples:554"
          [] LastDims(example_xs.shape, ni) # enc.input_size -> "predict_from_examples:555"
          [] LastDims(example_ys.shape, no) # enc.output_size -> "predict_from_examples:556"
          [] LastDims(query_xs.shape, ni) # enc.input_size -> "predict_from_examples:557"
          [] example_xs.shape[1] # example_ys.shape[1] -> "predict_from_examples:558"
          [] example_xs.shape[2] # example_xs.shape[2] -> "predict_from_examples:559"
          [] OTHER -> "none"

\* lines 552-560: the first assertion that fails, or "none".
predict_from_examples_precondition(enc, example_xs, example_ys, query_xs) ==
    LET ni == Len(enc.input_size)
        no == Len(enc.output_size)
    IN  CASE Rank(example_xs) # 2 + ni -> "predict_from_examples:552"
          [] Rank(example_ys) # 2 + no -> "predict_from_examples:553"
          [] Rank(query_xs) # 2 + ni -> "predict_from_examples:554"
          [] LastDims(example_xs.shape, ni) # enc.input_size -> "predict_from_examples:555"
          [] LastDims(example_ys.shape, no) # enc.output_size -> "predict_from_examples:556"
          [] LastDims(query_xs.shape, ni) # enc.input_size -> "predict_from_examples:557"
          [] example_xs.shape[1] # example_ys.shape[1] -> "predict_from_examples:558"
          [] example_xs.shape[2] # example_xs.shape[2] -> "predict_from_examples:559"
          [] example_xs.shape[1] # query_xs.shape[1] -> "predict_from_examples:560"
          [] OTHER -> "none"

\* lines 562-564
predict_from_examples_body(enc, theta, query_xs, cr) ==
    IF cr.exc # NoExc THEN P_result(cr.exc, NoTensor)
    ELSE predict(enc, theta, query_xs, cr.representation, NoTensor)

predict_from_examples(enc, theta, example_xs, example_ys, query_xs, kw) ==
    IF predict_from_examples_precondition(enc, example_xs, example_ys, query_xs) # "none"
    THEN P_result(Exc("AssertionError",
                      predict_from_examples_precondition(enc, example_xs, example_ys, query_xs)),
                  NoTensor)
    ELSE predict_from_examples_body(enc, theta, query_xs,
             compute_representation(enc, theta, example_xs, example_ys, kw))

\* torch.clamp(t, min=0.0)
clamp_min_zero(t) ==
    [shape |-> t.shape, data |-> [ix \in Idx(t.shape) |-> QMax(t.data[ix], QZero)]]

\* torch.einsum('fk,fkl,fl->f', representation, gram, representation)
einsum_fk_fkl_fl(representation, gram) ==
    [shape |-> <<representation.shape[1]>>,
     data |-> [ix \in Idx(<<representation.shape[1]>>) |->
                 QSum([k \in 1 .. gram.shape[2] |->
                          QSum([l \in 1 .. gram.shape[3] |->
                                   QMul(QMul(representation.data[<<ix[1], k>>],
                                             gram.data[<<ix[1], k, l>>]),
                                        representation.data[<<ix[1], l>>])],
                               1 .. gram.shape[3])],
                      1 .. gram.shape[2])]]

\* What estimate_L2_error returns: the exception or l2_distance.
EL2_result(e, l2_distance) == [exc |-> e, l2_distance |-> l2_distance]

\* lines 598-609
EL2_distance(enc, ls, current_example_ys) ==
    sqrt(clamp_min_zero(tsub(_norm(enc.data_type, current_example_ys, TRUE),
                             einsum_fk_fkl_fl(ls.representation, ls.gram))))

\* lines 592-609: the basis functions on the examples, the solver called
\* directly with its default lambd, and the distance.
EL2_direct(enc, Gs, current_example_ys) ==
    IF _compute_least_squares_representation_error(enc, Gs, current_example_ys,
                                                   EmptyKwargs) # NoExc
    THEN EL2_result(_compute_least_squares_representation_error(enc, Gs, current_example_ys,
                                                                EmptyKwargs),
                    NoTensor)
    ELSE EL2_result(NoExc,
                    EL2_distance(enc,
                                 _compute_least_squares_representation(enc, Gs,
                                     current_example_ys, EmptyKwargs),
                                 current_example_ys))

\* lines 583-592: what compute_representation raised leaves the method;
\* else the residuals of the examples are taken again.
EL2_after_representation(enc, theta, example_xs, example_ys, cr) ==
    IF cr.exc # NoExc THEN EL2_result(cr.exc, NoTensor)
    ELSE EL2_direct(enc, forward_basis_functions(enc, theta, example_xs),
                    residual_example_ys(enc, theta, example_xs, example_ys))

\* estimate_L2_error(example_xs, example_ys), lines 567-609.  Line 583 calls
\* compute_representation with the keyword method_override.
estimate_L2_error(enc, theta, example_xs, example_ys) ==
    IF enc.representation_mode # "least_squares"
    THEN EL2_result(Exc("ValueError", "estimate_L2_error:580"), NoTensor)
    ELSE EL2_after_representation(enc, theta, example_xs, example_ys,
             compute_representation(enc, theta, example_xs, example_ys,
                                    [k \in {"method_override"} |-> "least_squares"]))

\* The networks predict_from_examples has run forward when it returns or
\* raises: none while an assertion of lines 552-560 or of
\* compute_representation's lines 207-209 fails; otherwise the average
\* function (line 221) and the basis functions (line 225) on the examples,
\* before the solver and predict.
predict_from_examples_forwards(enc, example_xs, example_ys, query_xs) ==
    IF predict_from_examples_precondition(enc, example_xs, example_ys, query_xs) # "none"
    THEN {}
    ELSE IF compute_representation_precondition(enc, example_xs, example_ys) # "none"
    THEN {}
    ELSE {"model"} \cup (IF enc.use_residuals_method THEN {"average_function"} ELSE {})

----------------------------------------------------------------------------
(* Method calls on a constructed encoder.                                  *)

MaxF == 2
MaxD == 2
MaxSeed == 2

\* The sizes of the encoders the methods are called on.
SmallSizes == {1, 2}

\* Small integers drawn from a seed: the entries of inputs and parameters.
SeedValue(seed, j) == ((seed * j + seed + j * j) % 3) - 1

RECURSIVE Lin(_, _)
Lin(shape, ix) ==
    IF shape = <<>> THEN 0
    ELSE (ix[1] - 1) * Prod(Tail(shape)) + Lin(Tail(shape), Tail(ix))

SeededTensor(seed, shape) ==
    [shape |-> shape,
     data |-> [ix \in Idx(shape) |-> QInt(SeedValue(seed, 1 + Lin(shape, ix)))]]

\* The parameters of an MLP of n_layers = 2 and hidden_size = 1.
SeededMLP(seed, n_in, n_out) ==
    [w1 |-> [i \in 1 .. n_in |-> SeedValue(seed, i)],
     b1 |-> SeedValue(seed, n_in + 1),
     w2 |-> [j \in 1 .. n_out |-> SeedValue(seed + 1, j)],
     b2 |-> [j \in 1 .. n_out |-> SeedValue(seed + 2, j)]]

\* The parameters of a DeepSets encoder with single-layer phi and rho.
SeededDeepSets(seed, n_in, n_out, n_basis) ==
    [phi_w |-> [i \in 1 .. n_in + n_out |-> SeedValue(seed + 1, i)],
     phi_b |-> SeedValue(seed, 1),
     rho_w |-> [k \in 1 .. n_basis |-> SeedValue(seed + 2, k)],
     rho_b |-> [k \in 1 .. n_basis |-> SeedValue(seed, k + 1)]]

SeededTheta(e, seed) ==
    LET n == Prod(e.input_size)
        m == Prod(e.output_size)
    IN  [model |-> SeededMLP(seed, n, m * e.n_basis),
         average_function |-> SeededMLP(seed + 1, n, m),
         representation_encoder |-> SeededDeepSets(seed, n, m, e.n_basis)]

RepEncoders ==
    {e \in [input_size : {<<n>> : n \in SmallSizes},
            output_size : {<<m>> : m \in SmallSizes},
            n_basis : SmallSizes,
            data_type : DataTypes,
            representation_mode : RepresentationModes,
            use_residuals_method : BOOLEAN,
            aggregation : {"mean", "sum", "max"}] :
        e.representation_mode # "encoder_network" => e.aggregation = "mean"}

\* The keyword arguments compute_representation is called with.
RepKwargs(e) ==
    IF e.representation_mode = "least_squares"
    THEN {EmptyKwargs, [lambd |-> QZero], [lambd |-> QOne], [lambd |-> QInt(-1)]}
    ELSE {EmptyKwargs}

\* The leading axes of a call's tensors: F = 0 stands for a single function
\* given without the function axis.
Leading(F, D) == IF F = 0 THEN <<D>> ELSE <<F, D>>

InitRep ==
    /\ args = NoCall
    /\ ctor_pc = "unused"
    /\ fe = NoEncoder
    /\ raised = NoExc
    /\ this \in RepEncoders
    /\ \E seed \in 1 .. MaxSeed : weights = SeededTheta(this, seed)
    /\ rep_pc = "idle"
    /\ call = NoCall
    /\ ret = NoReturn
    /\ TrainUnused

\* representation, gram = self.compute_representation(example_xs, example_ys, **kw)
Call_compute_representation ==
    /\ rep_pc = "idle"
    /\ \E F \in 0 .. MaxF, D \in 1 .. MaxD, seed \in 1 .. MaxSeed, kw \in RepKwargs(this) :
          LET example_xs == SeededTensor(seed, Leading(F, D) \o this.input_size)
              example_ys == SeededTensor(seed + 1, Leading(F, D) \o this.output_size)
          IN  /\ call' = [op |-> "compute_representation", example_xs |-> example_xs,
                          example_ys |-> example_ys, kw |-> kw]
              /\ ret' = compute_representation(this, weights, example_xs, example_ys, kw)
    /\ rep_pc' = "returned"
    /\ UNCHANGED <<ctorVars, this, weights, trainVars>>

\* y_hats = self.predict_from_examples(example_xs, example_ys, query_xs, **kw)
Call_predict_from_examples ==
    /\ rep_pc = "idle"
    /\ \E F \in 0 .. MaxF, D \in 1 .. MaxD, seed \in 1 .. MaxSeed, kw \in RepKwargs(this) :
          LET example_xs == SeededTensor(seed, Leading(F, D) \o this.input_size)
              example_ys == SeededTensor(seed + 1, Leading(F, D) \o this.output_size)
              query_xs == SeededTensor(seed + 2, Leading(F, MaxD + 1 - D) \o this.input_size)
          IN  /\ call' = [op |-> "predict_from_examples", example_xs |-> example_xs,
                          example_ys |-> example_ys, query_xs |-> query_xs, kw |-> kw]
              /\ ret' = predict_from_examples(this, weights, example_xs, example_ys, query_xs, kw)
    /\ rep_pc' = "returned"
    /\ UNCHANGED <<ctorVars, this, weights, trainVars>>

\* l2_distance = self.estimate_L2_error(example_xs, example_ys)
Call_estimate_L2_error ==
    /\ rep_pc = "idle"
    /\ \E F \in 1 .. MaxF, D \in 1 .. MaxD, seed \in 1 .. MaxSeed :
          LET example_xs == SeededTensor(seed, <<F, D>> \o this.input_size)
              example_ys == SeededTensor(seed + 1, <<F, D>> \o this.output_size)
          IN  /\ call' = [op |-> "estimate_L2_error", example_xs |-> example_xs,
                          example_ys |-> example_ys]
              /\ ret' = estimate_L2_error(this, weights, example_xs, example_ys)
    /\ rep_pc' = "returned"
    /\ UNCHANGED <<ctorVars, this, weights, trainVars>>

\* self._inner_product(fs, gs): Kf, Kg = 0 stand for an operand of rank 3.
Call_inner_product ==
    /\ rep_pc = "idle"
    /\ \E F \in 1 .. MaxF, D \in 1 .. MaxD, seed \in 1 .. MaxSeed,
          Kf \in {0, this.n_basis}, Kg \in {0} \cup SmallSizes :
          LET M == this.output_size[1]
              fs == SeededTensor(seed, <<F, D, M>> \o (IF Kf = 0 THEN <<>> ELSE <<Kf>>))
              gs == SeededTensor(seed + 1, <<F, D, M>> \o (IF Kg = 0 THEN <<>> ELSE <<Kg>>))
              err == _inner_product_error(this.data_type, fs, gs)
          IN  /\ call' = [op |-> "_inner_product", fs |-> fs, gs |-> gs]
              /\ ret' = IF err # "none"
                        THEN [exc |-> Exc("AssertionError", err), value |-> NoTensor]
                        ELSE [exc |-> NoExc, value |-> _inner_product(this.data_type, fs, gs)]
    /\ rep_pc' = "returned"
    /\ UNCHANGED <<ctorVars, this, weights, trainVars>>

\* The four inner-product entry points by name.
InnerProductEntries ==
    {"_inner_product", "_deterministic_inner_product", "_stochastic_inner_product",
     "_categorical_inner_product"}

\* The assertion that stops the entry point, or "none".
entry_error(entry, data_type, fs, gs) ==
    CASE entry = "_inner_product" -> _inner_product_error(data_type, fs, gs)
      [] entry = "_deterministic_inner_product" -> _deterministic_inner_product_error(fs, gs)
      [] entry = "_stochastic_inner_product" -> _stochastic_inner_product_error(fs, gs)
      [] entry = "_categorical_inner_product" -> _categorical_inner_product_error(fs, gs)

\* What the entry point returns when no assertion stops it.
entry_value(entry, data_type, fs, gs) ==
    CASE entry = "_inner_product" -> _inner_product(data_type, fs, gs)
      [] entry = "_deterministic_inner_product" -> _deterministic_inner_product(fs, gs)
      [] entry = "_stochastic_inner_product" -> _stochastic_inner_product(fs, gs)
      [] entry = "_categorical_inner_product" -> _categorical_inner_product(fs, gs)

\* A shape of the given rank that starts with F, D, M: rank 2 is (F, D),
\* rank 3 (F, D, M), rank 4 (F, D, M, K), rank 5 (F, D, M, K, 1).
ShapeOfRank(rank, F, D, M, K) == SubSeq(<<F, D, M, K, 1>>, 1, rank)

\* The other of the two sizes.
OtherSize(n) == 3 - n

\* The entry points a call is made to: _inner_product, and the variant of
\* the encoder's data type called directly.
EntriesOf(data_type) == {"_inner_product", "_" \o data_type \o "_inner_product"}

\* One of the entry points is called on operands of any rank from 2 to 5
\* whose F, D and M may differ; fs has two functions.
Call_inner_product_entry ==
    /\ rep_pc = "idle"
    /\ \E entry \in EntriesOf(this.data_type), rank_fs \in 2 .. 5, rank_gs \in 2 .. 5,
          differ \in SUBSET {"F", "D", "M"} :
          LET F == 2
              D == this.input_size[1]
              M == this.output_size[1]
              fs == SeededTensor(1, ShapeOfRank(rank_fs, F, D, M, this.n_basis))
              gs == SeededTensor(2, ShapeOfRank(rank_gs,
                                                IF "F" \in differ THEN OtherSize(F) ELSE F,
                                                IF "D" \in differ THEN OtherSize(D) ELSE D,
                                                IF "M" \in differ THEN OtherSize(M) ELSE M,
                                                this.n_basis))
              err == entry_error(entry, this.data_type, fs, gs)
          IN  /\ call' = [op |-> "entry_point", entry |-> entry, fs |-> fs, gs |-> gs]
              /\ ret' = IF err # "none"
                        THEN [exc |-> Exc("AssertionError", err), value |-> NoTensor]
                        ELSE [exc |-> NoExc,
                              value |-> entry_value(entry, this.data_type, fs, gs)]
    /\ rep_pc' = "returned"
    /\ UNCHANGED <<ctorVars, this, weights, trainVars>>

\* self._norm(fs, squared): K = 0 stands for fs of rank 3.
Call_norm ==
    /\ rep_pc = "idle"
    /\ \E F \in 1 .. MaxF, D \in 1 .. MaxD, seed \in 1 .. MaxSeed, K \in {0, this.n_basis},
          squared \in BOOLEAN :
          LET M == this.output_size[1]
              fs == SeededTensor(seed, <<F, D, M>> \o (IF K = 0 THEN <<>> ELSE <<K>>))
              err == _inner_product_error(this.data_type, fs, fs)
          IN  /\ call' = [op |-> "_norm", fs |-> fs, squared |-> squared]
              /\ ret' = IF err # "none"
                        THEN [exc |-> Exc("AssertionError", err), value |-> NoTensor]
                        ELSE [exc |-> NoExc, value |-> _norm(this.data_type, fs, squared)]
    /\ rep_pc' = "returned"
    /\ UNCHANGED <<ctorVars, this, weights, trainVars>>

\* self._distance(fs, gs, squared) on operands of one shape.
Call_distance ==
    /\ rep_pc = "idle"
    /\ \E F \in 1 .. MaxF, D \in 1 .. MaxD, seed \in 1 .. MaxSeed, K \in {0, this.n_basis},
          squared \in BOOLEAN :
          LET M == this.output_size[1]
              fs == SeededTensor(seed, <<F, D, M>> \o (IF K = 0 THEN <<>> ELSE <<K>>))
              gs == SeededTensor(seed + 1, <<F, D, M>> \o (IF K = 0 THEN <<>> ELSE <<K>>))
              err == _inner_product_error(this.data_type, tsub(fs, gs), tsub(fs, gs))
          IN  /\ call' = [op |-> "_distance", fs |-> fs, gs |-> gs, squared |-> squared]
              /\ ret' = IF err # "none"
                        THEN [exc |-> Exc("AssertionError", err), value |-> NoTensor]
                        ELSE [exc |-> NoExc, value |-> _distance(this.data_type, fs, gs, squared)]
    /\ rep_pc' = "returned"
    /\ UNCHANGED <<ctorVars, this, weights, trainVars>>

\* y_hats = self.predict(query_xs, representations, precomputed_average_ys):
\* supplied tells whether precomputed_average_ys is given or left at None,
\* functions is the leading size of representations.
Call_predict ==
    /\ rep_pc = "idle"
    /\ \E F \in 1 .. MaxF, D \in 1 .. MaxD, seed \in 1 .. MaxSeed, supplied \in BOOLEAN,
          functions \in 1 .. MaxF :
          LET query_xs == SeededTensor(seed, <<F, D>> \o this.input_size)
              representations == SeededTensor(seed + 1, <<functions, this.n_basis>>)
              precomputed_average_ys ==
                  IF supplied THEN SeededTensor(seed + 2, <<F, D>> \o this.output_size)
                  ELSE NoTensor
              r == predict(this, weights, query_xs, representations, precomputed_average_ys)
          IN  /\ call' = [op |-> "predict", query_xs |-> query_xs,
                          representations |-> representations,
                          precomputed_average_ys |-> precomputed_average_ys]
              /\ ret' = [exc |-> r.exc, y_hats |-> r.y_hats,
                         forwards |-> IF r.exc = NoExc
                                      THEN predict_forwards(this, precomputed_average_ys)
                                      ELSE {}]
    /\ rep_pc' = "returned"
    /\ UNCHANGED <<ctorVars, this, weights, trainVars>>

\* The caller takes the result; the encoder is ready for the next call.
Return ==
    /\ rep_pc = "returned"
    /\ rep_pc' = "idle"
    /\ call' = NoCall
    /\ ret' = NoReturn
    /\ UNCHANGED <<ctorVars, this, weights, trainVars>>

NextRep ==
    \/ Call_compute_representation
    \/ Call_predict_from_examples
    \/ Call_inner_product
    \/ Call_inner_product_entry
    \/ Call_norm
    \/ Call_distance
    \/ Call_predict
    \/ Call_estimate_L2_error
    \/ Return

SpecRep == InitRep /\ [][NextRep]_vars

----------------------------------------------------------------------------
(* Method calls: a single function without the function axis, residuals,   *)
(* and the inner products.                                                 *)

Returned(op) == rep_pc = "returned" /\ call.op = op

\* The call's examples come without the function axis.
Unbatched == Rank(call.example_xs) = 1 + Len(this.input_size)

SomeNonZero(t) == \E ix \in Idx(t.shape) : t.data[ix] # QZero

\* C3: in every representation mode, compute_representation on a single
\* function given without the function axis raises exactly when the call on
\* the same data wrapped to F = 1 raises, and otherwise returns a
\* representation of shape [K] whose entries are row 0 of the representation
\* of the wrapped data.
C3_UnbatchedRepresentation ==
    (Returned("compute_representation") /\ Unbatched) =>
        LET wrapped == compute_representation(this, weights,
                                              unsqueeze(call.example_xs, 1),
                                              unsqueeze(call.example_ys, 1), call.kw)
        IN  /\ ret.exc = wrapped.exc
            /\ ret.exc = NoExc =>
                  /\ ret.representation.shape = <<this.n_basis>>
                  /\ wrapped.representation.shape = <<1, this.n_basis>>
                  /\ \A k \in 1 .. this.n_basis :
                        ret.representation.data[<<k>>] = wrapped.representation.data[<<1, k>>]

\* A least-squares representation of two coefficients, not both zero, was
\* returned for a single function given without the function axis.
C3_Witness ==
    /\ Returned("compute_representation")
    /\ Unbatched
    /\ this.representation_mode = "least_squares"
    /\ this.n_basis = 2
    /\ ret.exc = NoExc
    /\ SomeNonZero(ret.representation)

\* C4 as stated: predict_from_examples on a single function without the
\* function axis returns predictions of shape [D_q, *output_size], equal to
\* the result for the data wrapped to F = 1 with the function axis taken off.
C4_UnbatchedPrediction ==
    (Returned("predict_from_examples") /\ Unbatched) =>
        LET wrapped == predict_from_examples(this, weights,
                                             unsqueeze(call.example_xs, 1),
                                             unsqueeze(call.example_ys, 1),
                                             unsqueeze(call.query_xs, 1), call.kw)
        IN  wrapped.exc = NoExc =>
               /\ ret.exc = NoExc
               /\ ret.y_hats = squeeze(wrapped.y_hats, 1)

\* C4, amended: predict_from_examples on a single function without the
\* function axis raises an AssertionError at its first rank assertion; on
\* examples and queries with the function axis it raises or returns
\* predictions of shape [F, D_q, *output_size], those of predict on the
\* representation compute_representation returns for the examples.
C4_FunctionAxisRequired ==
    Returned("predict_from_examples") =>
        IF Unbatched
        THEN ret.exc = Exc("AssertionError", "predict_from_examples:552")
        ELSE ret.exc = NoExc =>
                LET cr == compute_representation(this, weights, call.example_xs,
                                                 call.example_ys, call.kw)
                IN  /\ ret.y_hats.shape = LeadDims(call.query_xs.shape, Len(this.input_size))
                                            \o this.output_size
                    /\ ret.y_hats = predict(this, weights, call.query_xs,
                                            cr.representation, NoTensor).y_hats

\* predict_from_examples raised on a single function without the function
\* axis although the same data wrapped to F = 1 has non-zero predictions.
C4_Witness ==
    /\ Returned("predict_from_examples")
    /\ Unbatched
    /\ ret.exc.type = "AssertionError"
    /\ LET wrapped == predict_from_examples(this, weights,
                                            unsqueeze(call.example_xs, 1),
                                            unsqueeze(call.example_ys, 1),
                                            unsqueeze(call.query_xs, 1), call.kw)
       IN  wrapped.exc = NoExc /\ SomeNonZero(wrapped.y_hats)

\* The examples of a compute_representation call with the function axis,
\* and the average function's output at one example point.
CallExampleYs == IF Unbatched THEN unsqueeze(call.example_ys, 1) ELSE call.example_ys
CallExampleXs == IF Unbatched THEN unsqueeze(call.example_xs, 1) ELSE call.example_xs
AverageAt(f, d) ==
    MLP_apply(weights.average_function,
              [i \in 1 .. this.input_size[1] |-> CallExampleXs.data[<<f, d, i>>]])

\* C5: with residuals on, the inner-product and least-squares solvers are
\* given example_ys minus the average function's output at example_xs, and
\* the representation encoder is given example_ys as the caller passed them;
\* with residuals off every solver is given example_ys unchanged.
C5_SolverInputs ==
    (Returned("compute_representation") /\ ret.exc = NoExc) =>
        IF this.representation_mode = "encoder_network"
        THEN ret.encoder_ys = CallExampleYs
        ELSE /\ ret.solver_ys.shape = CallExampleYs.shape
             /\ \A ix \in Idx(CallExampleYs.shape) :
                   ret.solver_ys.data[ix] =
                       IF this.use_residuals_method
                       THEN QSub(CallExampleYs.data[ix], AverageAt(ix[1], ix[2])[ix[3]])
                       ELSE CallExampleYs.data[ix]

\* With residuals on and an average function that is not zero on the
\* examples, the representation encoder was given the caller's examples.
C5_Witness ==
    /\ Returned("compute_representation")
    /\ ret.exc = NoExc
    /\ this.use_residuals_method
    /\ this.representation_mode = "encoder_network"
    /\ \E f \in 1 .. CallExampleYs.shape[1], d \in 1 .. CallExampleYs.shape[2] :
          AverageAt(f, d)[1] # QZero
    /\ SomeNonZero(ret.encoder_ys)

\* An operand's entry, with basis index 1 when it has no basis axis, and the
\* number of its basis functions.
OperandAt(t, f, d, m, k) == IF Rank(t) = 4 THEN t.data[<<f, d, m, k>>] ELSE t.data[<<f, d, m>>]
OperandBasis(t) == IF Rank(t) = 4 THEN <<t.shape[4]>> ELSE <<>>

\* The entry less the operand's mean over the datapoints ('stochastic') or
\* over the categories ('categorical'); the entry itself for 'deterministic'.
CentredAt(data_type, t, f, d, m, k) ==
    LET D == t.shape[2]
        M == t.shape[3]
        over_D == QDiv(QSum([j \in 1 .. D |-> OperandAt(t, f, j, m, k)], 1 .. D), QInt(D))
        over_M == QDiv(QSum([j \in 1 .. M |-> OperandAt(t, f, d, j, k)], 1 .. M), QInt(M))
    IN  CASE data_type = "deterministic" -> OperandAt(t, f, d, m, k)
          [] data_type = "stochastic" -> QSub(OperandAt(t, f, d, m, k), over_D)
          [] data_type = "categorical" -> QSub(OperandAt(t, f, d, m, k), over_M)

\* The mean over the datapoints of the sum over M of the products.
MeanOfProducts(data_type, fs, gs, f, k, l) ==
    LET D == fs.shape[2]
        M == fs.shape[3]
        at(d) == QSum([m \in 1 .. M |-> QMul(CentredAt(data_type, fs, f, d, m, k),
                                             CentredAt(data_type, gs, f, d, m, l))], 1 .. M)
    IN  QDiv(QSum([d \in 1 .. D |-> at(d)], 1 .. D), QInt(D))

\* The returned value has shape (F, K_f, K_g) less the axes of the operands
\* of rank 3, and holds the mean of products.
IsMeanOfProducts(data_type, fs, gs, value) ==
    /\ value.shape = <<fs.shape[1]>> \o OperandBasis(fs) \o OperandBasis(gs)
    /\ \A ix \in Idx(value.shape) :
          LET k == IF Rank(fs) = 4 THEN ix[2] ELSE 1
              l == IF Rank(gs) = 4 THEN ix[Len(ix)] ELSE 1
          IN  value.data[ix] = MeanOfProducts(data_type, fs, gs, ix[1], k, l)

\* C10 as stated: for fs, gs of rank 3 or 4 with equal F, D and M, and every
\* data type, _inner_product returns the mean over D of the sum over M of
\* the products of the operands (uncentred, centred over D, centred over M),
\* of shape (F, K_f, K_g) less the axes of the operands without a basis axis.
C10_InnerProductAnyM ==
    Returned("_inner_product") =>
        /\ ret.exc = NoExc
        /\ IsMeanOfProducts(this.data_type, call.fs, call.gs, ret.value)

\* C10, amended: the same, except that for data_type 'stochastic' operands
\* with M # 1 are rejected by an assertion.
C10_InnerProduct ==
    Returned("_inner_product") =>
        IF this.data_type = "stochastic" /\ call.fs.shape[3] # 1
        THEN ret.exc = Exc("AssertionError", "_stochastic_inner_product:output_size")
        ELSE /\ ret.exc = NoExc
             /\ IsMeanOfProducts(this.data_type, call.fs, call.gs, ret.value)

\* A categorical inner product of an operand without basis axis and one with
\* two basis functions over two categories was returned, and is not zero.
C10_Witness ==
    /\ Returned("_inner_product")
    /\ this.data_type = "categorical"
    /\ Rank(call.fs) = 3
    /\ call.gs.shape = <<MaxF, MaxD, 2, 2>>
    /\ ret.exc = NoExc
    /\ SomeNonZero(ret.value)

\* The operands of an entry-point call differ in F, D or M, or one of them
\* has a rank outside {3, 4}.
OperandsMismatch(fs, gs) ==
    \/ Rank(fs) \notin {3, 4}
    \/ Rank(gs) \notin {3, 4}
    \/ fs.shape[1] # gs.shape[1]
    \/ fs.shape[2] # gs.shape[2]
    \/ fs.shape[3] # gs.shape[3]

\* The call ends in the stochastic variant.
StochasticEntry ==
    \/ call.entry = "_stochastic_inner_product"
    \/ call.entry = "_inner_product" /\ this.data_type = "stochastic"

\* C11: each of _inner_product and the deterministic, stochastic and
\* categorical variants raises an AssertionError and computes no result when
\* fs and gs differ in F, in D or in M or one of them has a rank outside
\* {3, 4}, sizes of 1 included (nothing is broadcast); the stochastic variant
\* also raises when M # 1.
C11_ShapeMismatchRejected ==
    (/\ Returned("entry_point")
     /\ \/ OperandsMismatch(call.fs, call.gs)
        \/ StochasticEntry /\ call.fs.shape[3] # 1)
        => /\ ret.exc.type = "AssertionError"
           /\ ret.value = NoTensor

\* The categorical variant, called directly, raised on operands of rank 4
\* that differ only in D, where fs has a single datapoint that broadcasting
\* would have stretched.
C11_Witness ==
    /\ Returned("entry_point")
    /\ call.entry = "_categorical_inner_product"
    /\ Rank(call.fs) = 4 /\ Rank(call.gs) = 4
    /\ call.fs.shape[1] = call.gs.shape[1]
    /\ call.fs.shape[3] = call.gs.shape[3]
    /\ call.fs.shape[2] = 1 /\ call.gs.shape[2] = 2
    /\ ret.exc = Exc("AssertionError", "_categorical_inner_product:n_datapoints")
    /\ ret.value = NoTensor

\* Both operands of the call carry a basis axis.
BothWithBasis == Rank(call.fs) = 4 /\ Rank(call.gs) = 4

\* C12: for every data type and operands fs of shape (F, D, M, K_f) and gs
\* of shape (F, D, M, K_g), _inner_product(fs, gs) has shape (F, K_f, K_g)
\* and its entry [f, i, j] is entry [f, j, i] of _inner_product(gs, fs); the
\* operands one order rejects are rejected in the other order too.
C12_Symmetric ==
    (Returned("_inner_product") /\ BothWithBasis) =>
        IF _inner_product_error(this.data_type, call.gs, call.fs) # "none"
        THEN ret.exc.type = "AssertionError"
        ELSE /\ ret.exc = NoExc
             /\ ret.value.shape = <<call.fs.shape[1], call.fs.shape[4], call.gs.shape[4]>>
             /\ \A ix \in Idx(ret.value.shape) :
                   ret.value.data[ix] =
                       _inner_product(this.data_type, call.gs, call.fs).data[<<ix[1], ix[3], ix[2]>>]

\* An inner product of two basis functions against one was returned for
\* data type 'stochastic' and is not zero.
C12_Witness ==
    /\ Returned("_inner_product")
    /\ this.data_type = "stochastic"
    /\ BothWithBasis
    /\ call.fs.shape[4] = 2 /\ call.gs.shape[4] = 1
    /\ ret.exc = NoExc
    /\ SomeNonZero(ret.value)

\* The diagonal of the self inner product of fs: one entry per function and
\* basis function, the inner product of that basis function with itself.
IsDiagonalOfSelfProduct(data_type, fs, value) ==
    /\ value.shape = <<fs.shape[1]>> \o OperandBasis(fs)
    /\ \A ix \in Idx(value.shape) :
          LET k == IF Rank(fs) = 4 THEN ix[2] ELSE 1
          IN  value.data[ix] = MeanOfProducts(data_type, fs, fs, ix[1], k, k)

\* C13 as stated: for fs of rank 3, or of rank 4 with a basis axis, and every
\* data type, _norm(fs, squared=True) is the diagonal of the self inner
\* product of fs with no negative entry, the norm that is not squared has
\* no NaN entry, and _distance(fs, gs, squared) is _norm(fs - gs, squared).
C13_NormIsDiagonal ==
    /\ (Returned("_norm") /\ ret.exc = NoExc) =>
          IF call.squared
          THEN /\ IsDiagonalOfSelfProduct(this.data_type, call.fs, ret.value)
               /\ \A ix \in Idx(ret.value.shape) : ret.value.data[ix].n >= 0
          ELSE \A ix \in Idx(ret.value.shape) : ~ret.value.data[ix].nan
    /\ (Returned("_distance") /\ ret.exc = NoExc) =>
          ret.value = _norm(this.data_type, tsub(call.fs, call.gs), call.squared)

\* The call is made on an encoder in least-squares mode.
LeastSquaresCall(op) == Returned(op) /\ this.representation_mode = "least_squares"

\* The lambda the claim names for the keyword arguments: the one supplied,
\* else 1e-3.
ClaimedLambd(kw) == IF "lambd" \in DOMAIN kw THEN kw.lambd ELSE [n |-> 1, d |-> 1000]

NegativeLambd(kw) == "lambd" \in DOMAIN kw /\ kw.lambd.n < 0

\* c solves the regularised normal equations of Gs and ys:
\* sum over l of <G_k, G_l> c_l, plus lambd c_k, is <G_k, ys>.
SolvesRegularized(data_type, Gs, ys, c, lambd) ==
    \A f \in 1 .. Gs.shape[1], k \in 1 .. Gs.shape[4] :
        QAdd(QSum([l \in 1 .. Gs.shape[4] |->
                      QMul(MeanOfProducts(data_type, Gs, Gs, f, k, l), c.data[<<f, l>>])],
                  1 .. Gs.shape[4]),
             QMul(lambd, c.data[<<f, k>>]))
            = MeanOfProducts(data_type, Gs, ys, f, k, 1)

\* The returned representation with the function axis.
BatchedRepresentation(representation) ==
    IF Rank(representation) = 1 THEN unsqueeze(representation, 1) ELSE representation

FunctionOf(t, i) ==
    [shape |-> <<1>> \o Tail(t.shape),
     data |-> [ix \in Idx(<<1>> \o Tail(t.shape)) |-> t.data[<<i>> \o Tail(ix)]]]

\* Row i of a result is the only row of the result for function i alone.
SameRow(batch, i, single) ==
    /\ Tail(batch.shape) = Tail(single.shape)
    /\ \A ix \in Idx(single.shape) : single.data[ix] = batch.data[<<i>> \o Tail(ix)]

\* C15: in every representation mode, row i of the representation (and, in
\* least-squares mode, of the Gram matrix) that compute_representation
\* returns for a batch is what it returns for function i's example_xs and
\* example_ys alone, so it does not depend on the other functions' examples.
C15_BatchIndependence ==
    (Returned("compute_representation") /\ ~Unbatched /\ ret.exc = NoExc) =>
        \A i \in 1 .. call.example_xs.shape[1] :
            LET alone == compute_representation(this, weights,
                                                FunctionOf(call.example_xs, i),
                                                FunctionOf(call.example_ys, i), call.kw)
            IN  /\ alone.exc = NoExc
                /\ SameRow(ret.representation, i, alone.representation)
                /\ this.representation_mode = "least_squares" =>
                      SameRow(ret.gram, i, alone.gram)

\* A batch of two functions got two different least-squares representations
\* for stochastic data.
C15_Witness ==
    /\ LeastSquaresCall("compute_representation")
    /\ this.data_type = "stochastic"
    /\ ~Unbatched
    /\ call.example_xs.shape[1] = 2
    /\ ret.exc = NoExc
    /\ \E k \in 1 .. this.n_basis :
          ret.representation.data[<<1, k>>] # ret.representation.data[<<2, k>>]

\* The Gram matrix of every function of the batch is the identity.
IsIdentity(gram) ==
    \A ix \in Idx(gram.shape) : gram.data[ix] = IF ix[2] = ix[3] THEN QOne ELSE QZero

\* The same encoder in inner-product mode.
InnerProductMode(enc) ==
    [input_size |-> enc.input_size, output_size |-> enc.output_size, n_basis |-> enc.n_basis,
     aggregation |-> enc.aggregation, use_residuals_method |-> enc.use_residuals_method,
     representation_mode |-> "inner_product", data_type |-> enc.data_type]

\* C16: when the Gram matrix of the basis on the example points is the
\* identity for every function and lambd = 0, the least-squares
\* representation is the representation the same encoder computes in
\* inner-product mode from the same examples, for every function.
C16_OrthonormalAgreement ==
    (/\ LeastSquaresCall("compute_representation")
     /\ call.kw = [lambd |-> QZero]
     /\ ret.exc = NoExc
     /\ IsIdentity(ret.gram)) =>
        LET inner == compute_representation(InnerProductMode(this), weights,
                                            call.example_xs, call.example_ys, EmptyKwargs)
        IN  /\ inner.exc = NoExc
            /\ ret.representation = inner.representation

\* With lambd = 0 and two orthonormal basis functions, a least-squares
\* representation that is not zero was returned for a batch of two functions.
C16_Witness ==
    /\ LeastSquaresCall("compute_representation")
    /\ call.kw = [lambd |-> QZero]
    /\ ret.exc = NoExc
    /\ this.n_basis = 2
    /\ ret.gram.shape = <<2, 2, 2>>
    /\ IsIdentity(ret.gram)
    /\ SomeNonZero(ret.representation)

----------------------------------------------------------------------------
(* The least-squares solver on a basis of three linear functions of one    *)
(* input, evaluated on five points of [-1, 1], with targets that are a     *)
(* combination of the three with integer coefficients.                     *)

MaxCoefficient == 1

\* The example points: -1, -1/2, 0, 1/2, 1.
ExamplePoints == <<QInt(-1), Q(-1, 2), QZero, Q(1, 2), QOne>>

\* x |-> slope * x + intercept
LinearFunction(slope, intercept) == [slope |-> slope, intercept |-> intercept]

LinearAt(g, x) == QAdd(QMul(QInt(g.slope), x), QInt(g.intercept))

\* The bases: x, -x, 1;  x, -x, x + 1;  -x, 1, x + 1.
LinearBases ==
    {<<LinearFunction(1, 0), LinearFunction(-1, 0), LinearFunction(0, 1)>>,
     <<LinearFunction(1, 0), LinearFunction(-1, 0), LinearFunction(1, 1)>>,
     <<LinearFunction(-1, 0), LinearFunction(0, 1), LinearFunction(1, 1)>>}

\* Gs of shape (1, D, 1, 3): the basis at the example points.
BasisOnPoints(basis) ==
    [shape |-> <<1, Len(ExamplePoints), 1, 3>>,
     data |-> [ix \in Idx(<<1, Len(ExamplePoints), 1, 3>>) |->
                 LinearAt(basis[ix[4]], ExamplePoints[ix[2]])]]

\* example_ys of shape (1, D, 1): the combination of the basis, without noise.
CombinationOnPoints(basis, coefficients) ==
    [shape |-> <<1, Len(ExamplePoints), 1>>,
     data |-> [ix \in Idx(<<1, Len(ExamplePoints), 1>>) |->
                 QSum([k \in 1 .. 3 |-> QMul(QInt(coefficients[k]),
                                              LinearAt(basis[k], ExamplePoints[ix[2]]))],
                      1 .. 3)]]

\* A deterministic least-squares encoder of three basis functions.
RecoverEncoder ==
    [input_size |-> <<1>>, output_size |-> <<1>>, n_basis |-> 3, aggregation |-> "mean",
     use_residuals_method |-> FALSE, representation_mode |-> "least_squares",
     data_type |-> "deterministic"]

InitRecover ==
    /\ args = NoCall
    /\ ctor_pc = "unused"
    /\ fe = NoEncoder
    /\ raised = NoExc
    /\ this = RecoverEncoder
    /\ \E basis \in LinearBases : weights = [basis |-> basis]
    /\ rep_pc = "idle"
    /\ call = NoCall
    /\ ret = NoReturn
    /\ TrainUnused

\* What the solver returns: the exception, or the representation and the
\* Gram matrix.
LS_return(err, r) ==
    IF err # NoExc THEN [exc |-> err, representation |-> NoTensor, gram |-> NoTensor]
    ELSE [exc |-> NoExc, representation |-> r.representation, gram |-> r.gram]

\* representation, gram = self._compute_least_squares_representation(Gs, example_ys, **kw)
Call_compute_least_squares_representation ==
    /\ rep_pc = "idle"
    /\ \E coefficients \in [1 .. 3 -> -MaxCoefficient .. MaxCoefficient],
          kw \in {EmptyKwargs, [lambd |-> QZero]} :
          /\ call' = [op |-> "_compute_least_squares_representation",
                      Gs |-> BasisOnPoints(weights.basis),
                      example_ys |-> CombinationOnPoints(weights.basis, coefficients),
                      coefficients |-> coefficients, kw |-> kw]
          /\ ret' = LS_return(
                        _compute_least_squares_representation_error(this,
                            BasisOnPoints(weights.basis),
                            CombinationOnPoints(weights.basis, coefficients), kw),
                        _compute_least_squares_representation(this,
                            BasisOnPoints(weights.basis),
                            CombinationOnPoints(weights.basis, coefficients), kw))
    /\ rep_pc' = "returned"
    /\ UNCHANGED <<ctorVars, this, weights, trainVars>>

NextRecover ==
    \/ Call_compute_least_squares_representation
    \/ Return

SpecRecover == InitRecover /\ [][NextRecover]_vars

\* |q| < 1 / tolerance_denominator, without forming the product.
Within(q, tolerance_denominator) == Abs(q.n) <= (q.d - 1) \div tolerance_denominator

\* C17 as stated: for a basis of three linear functions of one input on
\* [-1, 1] and targets that are a combination of the three without noise,
\* the least-squares representation computed from at least three example
\* points is returned and each coefficient is within 1e-4 of the
\* combination's.
C17_RecoversCoefficients ==
    Returned("_compute_least_squares_representation") =>
        /\ ret.exc = NoExc
        /\ \A k \in 1 .. 3 :
              Within(QSub(ret.representation.data[<<1, k>>], QInt(call.coefficients[k])), 10000)

\* The average term of the call that returned: the supplied tensor, the
\* average network at query_xs when none is supplied, or nothing when the
\* encoder has no average function.
AverageTerm(ix) ==
    IF ~this.use_residuals_method THEN QZero
    ELSE IF call.precomputed_average_ys # NoTensor THEN call.precomputed_average_ys.data[ix]
    ELSE forward_average_function(this, weights, call.query_xs).data[ix]

\* sum over k of Gs[f, d, m, k] * representations[f, k] at query_xs
BasisCombination(ix) ==
    QSum([k \in 1 .. this.n_basis |->
             QMul(forward_basis_functions(this, weights, call.query_xs).data[ix \o <<k>>],
                  call.representations.data[<<ix[1], k>>])],
         1 .. this.n_basis)

\* C18: predict returns the combination of the basis network's outputs at
\* query_xs with the representations, plus the average term exactly when the
\* encoder has an average function: a supplied precomputed_average_ys (the
\* average network is then not run), else the average network at query_xs;
\* without an average function a supplied tensor is not added.
C18_Predict ==
    (Returned("predict") /\ ret.exc = NoExc) =>
        /\ ret.y_hats.shape = <<call.query_xs.shape[1], call.query_xs.shape[2]>>
                                  \o this.output_size
        /\ \A ix \in Idx(ret.y_hats.shape) :
              ret.y_hats.data[ix] = QAdd(BasisCombination(ix), AverageTerm(ix))
        /\ ("average_function" \in ret.forwards) <=>
              (this.use_residuals_method /\ call.precomputed_average_ys = NoTensor)

\* predict returned for an encoder without an average function that was
\* handed a precomputed_average_ys with an entry that is not zero.
C18_Witness ==
    /\ Returned("predict")
    /\ ret.exc = NoExc
    /\ ~this.use_residuals_method
    /\ call.precomputed_average_ys # NoTensor
    /\ \E ix \in Idx(ret.y_hats.shape) : call.precomputed_average_ys.data[ix] # QZero

\* C20: construction stops at an assertion, with no network, optimizer or
\* attribute of the encoder created, when data_type or representation_mode
\* is not one of the known strings, len(input_size) is not 1 or 3 (not 1
\* for MLP and ParallelMLP, not 3 for CNN), len(output_size) is not 1, or
\* input_size[0] or output_size[0] is below 1; arguments that pass the
\* assertions with a model_type that names no architecture end in a
\* ValueError, and no encoder is constructed.
C20_ConstructionRejected ==
    /\ ~WellFormedArgs(args) =>
          /\ ctor_pc \in {"start", "raised"}
          /\ fe = NoEncoder
          /\ ctor_pc = "raised" => raised.type = "AssertionError"
    /\ (WellFormedArgs(args) /\ args.model_type \notin ModelTypes) =>
          /\ ctor_pc \in {"start", "build_model", "raised"}
          /\ fe.model = None /\ ~fe.opt
          /\ ctor_pc = "raised" => raised.type = "ValueError"

\* Construction was stopped for a data_type that is no known string, all
\* other arguments being in order.
C20_Witness ==
    /\ ctor_pc = "raised"
    /\ raised.type = "AssertionError"
    /\ args.data_type \notin DataTypes
    /\ WellFormedArgs([args EXCEPT !.data_type = "deterministic"])
    /\ args.model_type = "MLP"

----------------------------------------------------------------------------
(* SpecLoss: the loss of one epoch of train_model (lines 646-689) on the   *)
(* tensors of a sampled batch.                                              *)

\* torch.diagonal(t, dim1=-2, dim2=-1) of a tensor whose last two axes have
\* the same size.
diagonal(t) ==
    LET shape == LeadDims(t.shape, 1)
    IN  [shape |-> shape,
         data |-> [ix \in Idx(shape) |-> t.data[ix \o <<ix[Len(ix)]>>]]]

\* t.mean(): the mean of all entries.
tensor_mean(t) == QDiv(QSum(t.data, Idx(t.shape)), QInt(Cardinality(Idx(t.shape))))

\* (t - 1)**2, entry by entry.
minus_one_squared(t) ==
    [shape |-> t.shape,
     data |-> [ix \in Idx(t.shape) |->
                 QMul(QSub(t.data[ix], QOne), QSub(t.data[ix], QOne))]]

\* A penalty on every entry of the Gram matrix, the off-diagonal ones too.
norm_loss_all_entries(gram) == tensor_mean(minus_one_squared(gram))

\* line 682
norm_loss(gram) == tensor_mean(minus_one_squared(diagonal(gram)))

\* lines 685-689
loss_sum(enc, prediction_loss, orthonormality, average_function_loss) ==
    LET with_norm_loss ==
            IF enc.representation_mode = "least_squares"
            THEN QAdd(prediction_loss, QMul(enc.regularization_parameter, orthonormality))
            ELSE prediction_loss
    IN  IF enc.use_residuals_method THEN QAdd(with_norm_loss, average_function_loss)
        ELSE with_norm_loss

\* The locals of an epoch when loss.backward() is reached, or the
\* exception that ended it.
EpochLocals(e, prediction_loss, orthonormality, average_function_loss, gram, loss) ==
    [exc |-> e, prediction_loss |-> prediction_loss, norm_loss |-> orthonormality,
     average_function_loss |-> average_function_loss, gram |-> gram, loss |-> loss]

epoch_raise(e) == EpochLocals(e, QZero, QZero, QZero, NoTensor, QZero)

\* lines 685-689 with the terms computed.
epoch_loss(enc, prediction_loss, orthonormality, average_function_loss, gram) ==
    EpochLocals(NoExc, prediction_loss, orthonormality, average_function_loss, gram,
                loss_sum(enc, prediction_loss, orthonormality, average_function_loss))

\* lines 672-678: gram is recomputed when compute_representation gave None.
epoch_gram(enc, theta, example_xs, gram) ==
    IF gram # NoTensor THEN gram
    ELSE _inner_product(enc.data_type, forward_basis_functions(enc, theta, example_xs),
                        forward_basis_functions(enc, theta, example_xs))

\* lines 664-682: prediction_loss and norm_loss.
epoch_after_predict(enc, theta, batch, average_function_loss, gram, p) ==
    IF p.exc # NoExc THEN epoch_raise(p.exc)
    ELSE IF _inner_product_error(enc.data_type, tsub(p.y_hats, batch.query_ys),
                                 tsub(p.y_hats, batch.query_ys)) # "none"
    THEN epoch_raise(Exc("AssertionError",
                         _inner_product_error(enc.data_type, tsub(p.y_hats, batch.query_ys),
                                              tsub(p.y_hats, batch.query_ys))))
    ELSE IF enc.representation_mode = "least_squares"
    THEN epoch_loss(enc,
                    tensor_mean(_distance(enc.data_type, p.y_hats, batch.query_ys, TRUE)),
                    norm_loss(epoch_gram(enc, theta, batch.example_xs, gram)),
                    average_function_loss,
                    epoch_gram(enc, theta, batch.example_xs, gram))
    ELSE epoch_loss(enc,
                    tensor_mean(_distance(enc.data_type, p.y_hats, batch.query_ys, TRUE)),
                    QZero, average_function_loss, gram)

\* lines 662-663: compute_representation and predict.
epoch_after_average(enc, theta, batch, kw, expected_yhats, average_function_loss, cr) ==
    IF cr.exc # NoExc THEN epoch_raise(cr.exc)
    ELSE epoch_after_predict(enc, theta, batch, average_function_loss, cr.gram,
                             predict(enc, theta, batch.query_xs, cr.representation,
                                     expected_yhats))

\* lines 649-659: the average function on the query points and its loss.
epoch_with_average(enc, theta, batch, kw, expected_yhats) ==
    IF _inner_product_error(enc.data_type, tsub(expected_yhats, batch.query_ys),
                            tsub(expected_yhats, batch.query_ys)) # "none"
    THEN epoch_raise(Exc("AssertionError",
                         _inner_product_error(enc.data_type,
                                              tsub(expected_yhats, batch.query_ys),
                                              tsub(expected_yhats, batch.query_ys))))
    ELSE epoch_after_average(enc, theta, batch, kw, expected_yhats,
             tensor_mean(_distance(enc.data_type, expected_yhats, batch.query_ys, TRUE)),
             compute_representation(enc, theta, batch.example_xs, batch.example_ys, kw))

\* lines 646-689: one pass of the loop body up to the loss that is
\* backpropagated.
epoch_body(enc, theta, batch, kw) ==
    IF enc.use_residuals_method
    THEN epoch_with_average(enc, theta, batch, kw,
                            forward_average_function(enc, theta, batch.query_xs))
    ELSE epoch_after_average(enc, theta, batch, kw, NoTensor, QZero,
             compute_representation(enc, theta, batch.example_xs, batch.example_ys, kw))

\* The values of regularization_parameter: the default 1.0 (line 41) and 2.
RegularizationParameters == {QOne, QInt(2)}

LossEncoders ==
    {e \in [input_size : {<<n>> : n \in SmallSizes},
            output_size : {<<m>> : m \in SmallSizes},
            n_basis : SmallSizes,
            data_type : DataTypes,
            representation_mode : RepresentationModes,
            use_residuals_method : BOOLEAN,
            aggregation : {"mean"},
            regularization_parameter : RegularizationParameters] :
        e.representation_mode # "least_squares" => e.regularization_parameter = QOne}

\* The keyword arguments of train_model: a lambd for the least-squares
\* solver.
LossKwargs(e) ==
    IF e.representation_mode = "least_squares"
    THEN {[lambd |-> QOne], [lambd |-> Q(1, 2)]}
    ELSE {EmptyKwargs}

\* dataset.sample(): F functions with D example and D query points each.
SampledBatch(e, seed, F, D) ==
    [example_xs |-> SeededTensor(seed, <<F, D>> \o e.input_size),
     example_ys |-> SeededTensor(seed + 1, <<F, D>> \o e.output_size),
     query_xs |-> SeededTensor(seed + 2, <<F, D>> \o e.input_size),
     query_ys |-> SeededTensor(seed + 3, <<F, D>> \o e.output_size)]

InitLoss ==
    /\ args = NoCall
    /\ ctor_pc = "unused"
    /\ fe = NoEncoder
    /\ raised = NoExc
    /\ this \in LossEncoders
    /\ \E seed \in 1 .. MaxSeed : weights = SeededTheta(this, seed)
    /\ rep_pc = "idle"
    /\ call = NoCall
    /\ ret = NoReturn
    /\ TrainUnused

\* One epoch of train_model(dataset, epochs, **kw) up to loss.backward().
Epoch ==
    /\ rep_pc = "idle"
    /\ \E F \in 1 .. MaxF, D \in 1 .. MaxD, seed \in 1 .. MaxSeed, kw \in LossKwargs(this) :
          /\ call' = [op |-> "train_model", batch |-> SampledBatch(this, seed, F, D),
                      kw |-> kw]
          /\ ret' = epoch_body(this, weights, SampledBatch(this, seed, F, D), kw)
    /\ rep_pc' = "returned"
    /\ UNCHANGED <<ctorVars, this, weights, trainVars>>

NextLoss == Epoch \/ Return

SpecLoss == InitLoss /\ [][NextLoss]_vars

\* The Gram matrix of the basis functions on the example points of the
\* batch, nothing added to its diagonal.
ExampleGram ==
    _inner_product(this.data_type,
                   forward_basis_functions(this, weights, call.batch.example_xs),
                   forward_basis_functions(this, weights, call.batch.example_xs))

\* mean((diag(Gram) - 1)^2) over the functions and the basis functions.
OrthonormalityTerm ==
    LET F == ExampleGram.shape[1]
        K == this.n_basis
    IN  QDiv(QSum([fk \in (1 .. F) \X (1 .. K) |->
                      QMul(QSub(ExampleGram.data[<<fk[1], fk[2], fk[2]>>], QOne),
                           QSub(ExampleGram.data[<<fk[1], fk[2], fk[2]>>], QOne))],
                  (1 .. F) \X (1 .. K)),
             QInt(F * K))

\* C19: the loss that is backpropagated is prediction_loss, plus
\* regularization_parameter times the mean squared deviation from 1 of the
\* diagonal of the unregularized Gram matrix of the example points exactly
\* in least_squares mode, plus average_function_loss exactly when the
\* encoder has an average function.
C19_LossTerms ==
    (Returned("train_model") /\ ret.exc = NoExc) =>
        ret.loss = QAdd(QAdd(ret.prediction_loss,
                             IF this.representation_mode = "least_squares"
                             THEN QMul(this.regularization_parameter, OrthonormalityTerm)
                             ELSE QZero),
                        IF this.use_residuals_method THEN ret.average_function_loss
                        ELSE QZero)

\* An epoch in least_squares mode with an average function, a regularization
\* parameter that is not 1, two basis functions that are not orthogonal on
\* the examples, and all three terms different from zero.
C19_Witness ==
    /\ Returned("train_model")
    /\ ret.exc = NoExc
    /\ this.representation_mode = "least_squares"
    /\ this.use_residuals_method
    /\ this.regularization_parameter # QOne
    /\ this.n_basis = 2
    /\ \E f \in 1 .. ExampleGram.shape[1] : ExampleGram.data[<<f, 1, 2>>] # QZero
    /\ ret.prediction_loss # QZero
    /\ ret.average_function_loss # QZero
    /\ OrthonormalityTerm # QZero

----------------------------------------------------------------------------
(* train_model (FunctionEncoder.py, lines 613-704).  A tensor is followed  *)
(* by the parameter groups autograd would reach from it; a parameter       *)
(* group's .grad by the loss terms that have been accumulated into it.     *)

MaxEpochs == 3
MaxAccum == 2
MaxCalls == 2

clip_max_norm == 1

\* network.forward(xs): the output reaches the network's parameters and
\* whatever the input reaches.
forward_graph(group, input) == {group} \cup input

\* with torch.no_grad(): the results reach nothing.
no_grad(t) == {}

\* A detach that keeps the gradient paths.
detach_kept(t) == t

\* tensor.detach()
detach(t) == {}

\* compute_representation, by what its results reach (lines 218-242).
compute_representation_graph(mode, has_average) ==
    LET example_y_hat_average == no_grad(forward_graph("average_function", {}))
        example_ys == IF has_average THEN no_grad({} \cup example_y_hat_average) ELSE {}
        Gs == forward_graph("model", {})
        original_example_ys == IF has_average THEN example_ys \cup example_y_hat_average
                               ELSE example_ys
    IN  CASE mode = "inner_product" -> [representation |-> Gs \cup example_ys, gram |-> {}]
          [] mode = "least_squares" -> [representation |-> Gs \cup example_ys, gram |-> Gs]
          [] mode = "encoder_network" ->
                [representation |-> forward_graph("representation_encoder", original_example_ys),
                 gram |-> {}]

\* predict, by what y_hats reaches (lines 521-533); precomputed stands for
\* "precomputed_average_ys is not None".
predict_graph(has_average, representation, precomputed, precomputed_average_ys) ==
    LET Gs == forward_graph("model", {})
        y_hats == Gs \cup representation
        average_ys == IF precomputed THEN precomputed_average_ys
                      ELSE forward_graph("average_function", {})
    IN  IF has_average THEN y_hats \cup average_ys ELSE y_hats

\* loss.backward(): each term of the loss is accumulated into the .grad of
\* the parameter groups it reaches.
backward(g, gr) == [p \in ParamGroups |-> gr[p] \cup {t \in g.loss : p \in g[t]}]

\* A step that is due by the epochs before this one.
step_due_before_epoch(e, accumulation) == e % accumulation = 0

\* line 693
step_due(e, accumulation) == (e + 1) % accumulation = 0

\* An epoch that leaves the average function out.
after_sample_without_average(has_average) == "compute_representation"

\* lines 649 and 658: the statement after dataset.sample()
after_sample(has_average) == IF has_average THEN "average_forward" ELSE "compute_representation"

\* Hooks that are called whatever the callback is.
hook_called_always(callback) == TRUE

\* lines 637, 699 and 703: if callback is not None; callback is TRUE for a
\* callback object and FALSE for None.
hook_called(callback) == callback

\* The keyword arguments train_model hands on to compute_representation.
TrainKwargs ==
    {EmptyKwargs, [k \in {"lambd"} |-> "0.1"], [k \in {"method_override"} |-> "least_squares"]}

Event(name) == [ev |-> name, epoch |-> epoch, opt_steps |-> opt_steps]

\* What the data of a call makes fail: nothing, or one operation of one
\* epoch with the exception it raises there.  dataset.sample() fails as the
\* dataset does; the forward passes, compute_representation, predict and
\* _distance fail at their assertions; torch.linalg.inv (line 498) fails on
\* a singular matrix, in least_squares mode only.
NoFault == [epoch |-> -1, op |-> "none", type |-> "none"]

FaultSites ==
    {<<"sample", "RuntimeError">>, <<"average_forward", "AssertionError">>,
     <<"average_function_loss", "AssertionError">>,
     <<"compute_representation", "AssertionError">>,
     <<"compute_representation", "LinAlgError">>,
     <<"predict", "AssertionError">>, <<"prediction_loss", "AssertionError">>}

Faults ==
    {NoFault} \cup
    {[epoch |-> e, op |-> site[1], type |-> site[2]] : e \in {0, MaxEpochs - 1}, site \in FaultSites}

\* The operation op of this epoch fails.
Faulty(op) ==
    /\ tcall.fault.epoch = epoch
    /\ tcall.fault.op = op
    /\ tcall.fault.type = "LinAlgError" => trainee.representation_mode = "least_squares"

\* A train_model that catches the exception and ends as a call that returned.
Propagate_caught(e) ==
    /\ raised' = e
    /\ train_pc' = "done"

\* The exception leaves train_model: the loop body (lines 645-700) has no
\* try statement.
Propagate(e) ==
    /\ raised' = e
    /\ train_pc' = "raised"

\* torch.nn.utils.clip_grad_norm_(self.parameters(), 1)
ClipEvent ==
    [ev |-> "clip_grad_norm_", epoch |-> epoch, opt_steps |-> opt_steps,
     parameters |-> ParamGroups, max_norm |-> clip_max_norm]

Trainees ==
    [representation_mode : RepresentationModes,
     use_residuals_method : BOOLEAN,
     gradient_accumulation : 1 .. MaxAccum]

InitTrain ==
    /\ args = NoCall
    /\ ctor_pc = "unused"
    /\ fe = NoEncoder
    /\ raised = NoExc
    /\ RepUnused
    /\ trainee \in Trainees
    /\ tcall = NoCall
    /\ train_pc = "idle"
    /\ epoch = -1
    /\ log = <<>>
    /\ graph = NoGraph
    /\ grads = NoGrads
    /\ passes = <<>>
    /\ distance_callback = NoCallback
    /\ opt_steps = 0
    /\ calls = 0

\* self.train_model(dataset, epochs, callback=callback, **kwargs)
T_call ==
    /\ train_pc \in {"idle", "done", "raised"}
    /\ calls < MaxCalls
    /\ \E E \in 0 .. MaxEpochs, cb \in BOOLEAN, ok \in BOOLEAN, kw \in TrainKwargs,
          fault \in Faults :
          tcall' = [op |-> "train_model", epochs |-> E, callback |-> cb,
                    dataset_ok |-> ok, kwargs |-> kw, fault |-> fault]
    /\ calls' = calls + 1
    /\ train_pc' = "check_dataset"
    /\ epoch' = -1
    /\ log' = <<>>
    /\ graph' = NoGraph
    /\ raised' = NoExc
    /\ ret' = NoReturn
    /\ UNCHANGED <<args, ctor_pc, fe, this, weights, rep_pc, call, trainee,
                   distance_callback, grads, passes, opt_steps>>

\* line 631: dataset.check_dataset(), which raises on a malformed dataset.
T_check_dataset ==
    /\ train_pc = "check_dataset"
    /\ log' = Append(log, Event("check_dataset"))
    /\ IF tcall.dataset_ok
       THEN train_pc' = "on_training_start" /\ raised' = raised
       ELSE Propagate(Exc("AssertionError", "check_dataset"))
    /\ UNCHANGED <<args, ctor_pc, fe, repVars, trainee, distance_callback, tcall, epoch,
                   graph, grads, passes, opt_steps, calls>>

\* What a function without a return statement gives.
PyNone == "None"

\* DistanceCallback.__init__, lines 12-30: total_epochs = 0; tensorboard
\* holds the scalars written, each with the train_model call it was written
\* in and the step it was written at.
DistanceCallback_init(log_freq) ==
    [total_epochs |-> 0, log_freq |-> log_freq, tensorboard |-> <<>>]

\* DistanceCallback.on_step(locals_dict), lines 36-74, with a testing
\* dataset and a prediction that do not raise.
DistanceCallback_on_step(self, locals_dict, run) ==
    IF KwGet(locals_dict, "epoch", self.total_epochs) % self.log_freq = 0
    THEN [total_epochs |-> self.total_epochs + 1,
          log_freq |-> self.log_freq,
          tensorboard |-> Append(self.tensorboard,
                                 [run |-> run,
                                  step |-> KwGet(locals_dict, "epoch", self.total_epochs)])]
    ELSE self

\* DistanceCallback.on_training_start(locals), lines 32-34
DistanceCallback_on_training_start(self, locals_dict, run) ==
    IF self.total_epochs = 0 THEN DistanceCallback_on_step(self, locals_dict, run) ELSE self

\* locals() of train_model at line 638, before the loop, and at line 700:
\* the local variables the callback reads.
LocalsBeforeLoop == [k \in {"epochs"} |-> tcall.epochs]
LocalsInLoop == [k \in {"epochs", "epoch"} |-> IF k = "epoch" THEN epoch ELSE tcall.epochs]

\* lines 637-643; line 643 is losses = []
T_on_training_start ==
    /\ train_pc = "on_training_start"
    /\ log' = IF hook_called(tcall.callback) THEN Append(log, Event("on_training_start")) ELSE log
    /\ distance_callback' =
          IF hook_called(tcall.callback) /\ distance_callback # NoCallback
          THEN DistanceCallback_on_training_start(distance_callback, LocalsBeforeLoop, calls)
          ELSE distance_callback
    /\ ret' = [exc |-> NoExc, losses |-> <<>>]
    /\ train_pc' = "for"
    /\ UNCHANGED <<ctorVars, this, weights, rep_pc, call, trainee, tcall, epoch, graph,
                   grads, passes, opt_steps, calls>>

\* line 645: for epoch in range(epochs)
T_for ==
    /\ train_pc = "for"
    /\ IF epoch + 1 < tcall.epochs
       THEN epoch' = epoch + 1 /\ train_pc' = "sample"
       ELSE epoch' = epoch /\ train_pc' = "on_training_end"
    /\ UNCHANGED <<ctorVars, repVars, trainee, distance_callback, tcall, log, graph,
                   grads, passes, opt_steps, calls>>

\* line 646; expected_yhats is None without an average function (line 659)
T_sample ==
    /\ train_pc = "sample"
    /\ log' = Append(log, Event("sample"))
    /\ graph' = NoGraph
    /\ IF Faulty("sample") THEN Propagate(Exc(tcall.fault.type, "sample"))
       ELSE train_pc' = after_sample(trainee.use_residuals_method) /\ raised' = raised
    /\ UNCHANGED <<args, ctor_pc, fe, repVars, trainee, distance_callback, tcall, epoch,
                   grads, passes, opt_steps, calls>>

\* line 651
T_average_forward ==
    /\ train_pc = "average_forward"
    /\ log' = Append(log, Event("average_forward"))
    /\ IF Faulty("average_forward")
       THEN Propagate(Exc(tcall.fault.type, "average_forward")) /\ graph' = graph
       ELSE /\ graph' = [graph EXCEPT !.expected_yhats = forward_graph("average_function", {})]
            /\ train_pc' = "average_loss"
            /\ raised' = raised
    /\ UNCHANGED <<args, ctor_pc, fe, repVars, trainee, distance_callback, tcall, epoch,
                   grads, passes, opt_steps, calls>>

\* line 654
T_average_loss ==
    /\ train_pc = "average_loss"
    /\ log' = Append(log, Event("average_function_loss"))
    /\ IF Faulty("average_function_loss")
       THEN Propagate(Exc(tcall.fault.type, "average_function_loss")) /\ graph' = graph
       ELSE /\ graph' = [graph EXCEPT !.average_function_loss = graph.expected_yhats]
            /\ train_pc' = "detach"
            /\ raised' = raised
    /\ UNCHANGED <<args, ctor_pc, fe, repVars, trainee, distance_callback, tcall, epoch,
                   grads, passes, opt_steps, calls>>

\* line 657
T_detach ==
    /\ train_pc = "detach"
    /\ log' = Append(log, Event("detach"))
    /\ graph' = [graph EXCEPT !.expected_yhats = detach(graph.expected_yhats)]
    /\ train_pc' = "compute_representation"
    /\ UNCHANGED <<ctorVars, repVars, trainee, distance_callback, tcall, epoch, grads,
                   passes, opt_steps, calls>>

\* line 662: in least_squares mode the keywords reach
\* _compute_least_squares_representation, which takes lambd only.
T_compute_representation ==
    /\ train_pc = "compute_representation"
    /\ log' = Append(log, Event("compute_representation"))
    /\ IF /\ trainee.representation_mode = "least_squares"
          /\ ~(DOMAIN tcall.kwargs \subseteq {"lambd"})
       THEN Propagate(Exc("TypeError", "compute_representation")) /\ graph' = graph
       ELSE IF Faulty("compute_representation")
       THEN Propagate(Exc(tcall.fault.type, "compute_representation")) /\ graph' = graph
       ELSE LET r == compute_representation_graph(trainee.representation_mode,
                                                  trainee.use_residuals_method)
            IN  /\ graph' = [graph EXCEPT !.representation = r.representation,
                                          !.gram = r.gram]
                /\ train_pc' = "predict"
                /\ raised' = raised
    /\ UNCHANGED <<args, ctor_pc, fe, repVars, trainee, distance_callback, tcall, epoch,
                   grads, passes, opt_steps, calls>>

\* line 663
T_predict ==
    /\ train_pc = "predict"
    /\ log' = Append(log, Event("predict"))
    /\ IF Faulty("predict")
       THEN Propagate(Exc(tcall.fault.type, "predict")) /\ graph' = graph
       ELSE /\ graph' = [graph EXCEPT !.y_hats =
                            predict_graph(trainee.use_residuals_method, graph.representation,
                                          trainee.use_residuals_method, graph.expected_yhats)]
            /\ train_pc' = "prediction_loss"
            /\ raised' = raised
    /\ UNCHANGED <<args, ctor_pc, fe, repVars, trainee, distance_callback, tcall, epoch,
                   grads, passes, opt_steps, calls>>

\* line 664
T_prediction_loss ==
    /\ train_pc = "prediction_loss"
    /\ log' = Append(log, Event("prediction_loss"))
    /\ IF Faulty("prediction_loss")
       THEN Propagate(Exc(tcall.fault.type, "prediction_loss")) /\ graph' = graph
       ELSE /\ graph' = [graph EXCEPT !.prediction_loss = graph.y_hats]
            /\ train_pc' = "loss"
            /\ raised' = raised
    /\ UNCHANGED <<args, ctor_pc, fe, repVars, trainee, distance_callback, tcall, epoch,
                   grads, passes, opt_steps, calls>>

\* lines 669-689: the orthonormality penalty and the terms of the loss.
T_loss ==
    /\ train_pc = "loss"
    /\ LET least_squares == trainee.representation_mode = "least_squares"
       IN  /\ log' = IF least_squares THEN Append(log, Event("norm_loss")) ELSE log
           /\ graph' = [graph EXCEPT
                  !.norm_loss = IF least_squares THEN graph.gram ELSE {},
                  !.loss = {"prediction_loss"}
                           \cup (IF least_squares THEN {"norm_loss"} ELSE {})
                           \cup (IF trainee.use_residuals_method
                                 THEN {"average_function_loss"} ELSE {})]
    /\ train_pc' = "backward"
    /\ UNCHANGED <<ctorVars, repVars, trainee, distance_callback, tcall, epoch, grads,
                   passes, opt_steps, calls>>

\* lines 692-693
T_backward ==
    /\ train_pc = "backward"
    /\ log' = Append(log, Event("backward"))
    /\ grads' = backward(graph, grads)
    /\ passes' = Append(passes, calls)
    /\ train_pc' = IF step_due(epoch, trainee.gradient_accumulation) THEN "clip" ELSE "on_step"
    /\ UNCHANGED <<ctorVars, repVars, trainee, distance_callback, tcall, epoch, graph,
                   opt_steps, calls>>

\* line 694
T_clip ==
    /\ train_pc = "clip"
    /\ log' = Append(log, ClipEvent)
    /\ train_pc' = "opt_step"
    /\ UNCHANGED <<ctorVars, repVars, trainee, distance_callback, tcall, epoch, graph,
                   grads, passes, opt_steps, calls>>

\* line 695
T_opt_step ==
    /\ train_pc = "opt_step"
    /\ log' = Append(log, Event("opt.step"))
    /\ opt_steps' = opt_steps + 1
    /\ train_pc' = "zero_grad"
    /\ UNCHANGED <<ctorVars, repVars, trainee, distance_callback, tcall, epoch, graph,
                   grads, passes, calls>>

\* line 696
T_zero_grad ==
    /\ train_pc = "zero_grad"
    /\ log' = Append(log, Event("opt.zero_grad"))
    /\ grads' = NoGrads
    /\ passes' = <<>>
    /\ train_pc' = "on_step"
    /\ UNCHANGED <<ctorVars, repVars, trainee, distance_callback, tcall, epoch, graph,
                   opt_steps, calls>>

\* lines 699-700
T_on_step ==
    /\ train_pc = "on_step"
    /\ log' = IF hook_called(tcall.callback) THEN Append(log, Event("on_step")) ELSE log
    /\ distance_callback' =
          IF hook_called(tcall.callback) /\ distance_callback # NoCallback
          THEN DistanceCallback_on_step(distance_callback, LocalsInLoop, calls)
          ELSE distance_callback
    /\ train_pc' = "for"
    /\ UNCHANGED <<ctorVars, repVars, trainee, tcall, epoch, graph, grads, passes,
                   opt_steps, calls>>

\* lines 703-704, and the end of the function: no return statement
\* follows, so the call gives None; losses is as line 643 made it, for no
\* statement of the loop appends to it.
T_on_training_end ==
    /\ train_pc = "on_training_end"
    /\ log' = IF hook_called(tcall.callback) THEN Append(log, Event("on_training_end")) ELSE log
    /\ ret' = [exc |-> NoExc, losses |-> ret.losses, value |-> PyNone]
    /\ train_pc' = "done"
    /\ UNCHANGED <<ctorVars, this, weights, rep_pc, call, trainee, distance_callback,
                   tcall, epoch, graph, grads, passes, opt_steps, calls>>

NextTrain ==
    \/ T_call
    \/ T_check_dataset
    \/ T_on_training_start
    \/ T_for
    \/ T_sample
    \/ T_average_forward
    \/ T_average_loss
    \/ T_detach
    \/ T_compute_representation
    \/ T_predict
    \/ T_prediction_loss
    \/ T_loss
    \/ T_backward
    \/ T_clip
    \/ T_opt_step
    \/ T_zero_grad
    \/ T_on_step
    \/ T_on_training_end

SpecTrain == InitTrain /\ [][NextTrain]_vars

----------------------------------------------------------------------------
(* train_model: gradients, the optimizer schedule, the order of an epoch,  *)
(* and the callback hooks.                                                 *)

Training == train_pc \notin {"unused", "idle"}

Count(name) == Len(SelectSeq(log, LAMBDA x : x.ev = name))

\* Entry i of the log is followed by one of the given kind; when it is the
\* last entry, the call is at pc.
NextIs(i, name, pc) ==
    IF i < Len(log) THEN log[i + 1].ev = name ELSE train_pc = pc

\* C6: with use_residuals_method on, in every representation mode, the
\* .grad of the average function's parameters holds contributions of
\* average_function_loss only: neither the prediction loss nor the
\* orthonormality penalty reaches the average function, and each backward
\* pass does accumulate average_function_loss into it.
C6_AverageGradient ==
    (Training /\ trainee.use_residuals_method) =>
        /\ grads["average_function"] \subseteq {"average_function_loss"}
        /\ "average_function" \notin graph.prediction_loss \cup graph.norm_loss
        /\ (log # <<>> /\ log[Len(log)].ev = "backward") =>
              grads["average_function"] = {"average_function_loss"}

\* After a backward pass with residuals in least_squares mode the average
\* function holds the gradient of its own loss, and the basis functions
\* hold those of the prediction loss and of the orthonormality penalty.
C6_Witness ==
    /\ train_pc = "on_step"
    /\ trainee.use_residuals_method
    /\ trainee.representation_mode = "least_squares"
    /\ grads["average_function"] = {"average_function_loss"}
    /\ grads["model"] = {"prediction_loss", "norm_loss"}

\* C7: within one train_model call with gradient_accumulation = g, the
\* backward pass of epoch e is followed by an optimizer step exactly when
\* (e + 1) mod g = 0; every step comes right after a clip of the gradient
\* norm of all parameters to 1 and right before zero_grad; clip and
\* zero_grad happen nowhere else; a call that returns has made floor(E / g)
\* steps.
C7_StepSchedule ==
    Training =>
        LET g == trainee.gradient_accumulation
        IN  /\ \A i \in 1 .. Len(log) :
                  /\ log[i].ev = "backward" =>
                        IF (log[i].epoch + 1) % g = 0
                        THEN NextIs(i, "clip_grad_norm_", "clip")
                        ELSE /\ i = Len(log) => train_pc \notin {"clip", "opt_step", "zero_grad"}
                             /\ \A j \in 1 .. Len(log) :
                                   log[j].epoch = log[i].epoch =>
                                      log[j].ev \notin {"clip_grad_norm_", "opt.step",
                                                        "opt.zero_grad"}
                  /\ log[i].ev = "clip_grad_norm_" =>
                        /\ log[i - 1].ev = "backward"
                        /\ log[i].max_norm = 1
                        /\ log[i].parameters = ParamGroups
                        /\ NextIs(i, "opt.step", "opt_step")
                  /\ log[i].ev = "opt.step" =>
                        /\ log[i - 1].ev = "clip_grad_norm_"
                        /\ (log[i].epoch + 1) % g = 0
                        /\ NextIs(i, "opt.zero_grad", "zero_grad")
                  /\ log[i].ev = "opt.zero_grad" => log[i - 1].ev = "opt.step"
            /\ train_pc = "done" =>
                  /\ Count("opt.step") = tcall.epochs \div g
                  /\ Count("clip_grad_norm_") = tcall.epochs \div g
                  /\ Count("opt.zero_grad") = tcall.epochs \div g

\* A call of three epochs with gradient_accumulation 2 returned after one
\* optimizer step, made in epoch 1.
C7_Witness ==
    /\ train_pc = "done"
    /\ tcall.epochs = 3
    /\ trainee.gradient_accumulation = 2
    /\ Count("opt.step") = 1
    /\ \E i \in 1 .. Len(log) : log[i].ev = "opt.step" /\ log[i].epoch = 1

\* The steps of an epoch, by name, in the order they were made.
EpochSteps ==
    {"sample", "average_forward", "average_function_loss", "detach",
     "compute_representation", "predict", "prediction_loss", "backward",
     "clip_grad_norm_", "opt.step", "opt.zero_grad", "on_step"}

StepsOf(e) ==
    LET evs == SelectSeq(log, LAMBDA x : x.epoch = e /\ x.ev \in EpochSteps)
    IN  [i \in 1 .. Len(evs) |-> evs[i].ev]

\* The order of an epoch e.
EpochOrder(e) ==
    <<"sample">>
    \o (IF trainee.use_residuals_method
        THEN <<"average_forward", "average_function_loss", "detach">> ELSE <<>>)
    \o <<"compute_representation", "predict", "prediction_loss", "backward">>
    \o (IF (e + 1) % trainee.gradient_accumulation = 0
        THEN <<"clip_grad_norm_", "opt.step", "opt.zero_grad">> ELSE <<>>)
    \o (IF tcall.callback THEN <<"on_step">> ELSE <<>>)

IsPrefix(a, b) == Len(a) <= Len(b) /\ a = SubSeq(b, 1, Len(a))

\* Epoch e has run to its end.
EpochOver(e) == e < epoch \/ train_pc \in {"for", "on_training_end", "done"}

\* C8: every epoch makes, in this order and once each: dataset.sample; with
\* residuals the average function's forward, its loss and the detach;
\* compute_representation; predict; the prediction loss; loss.backward; the
\* clip, optimizer step and zero_grad when they are due; and last, with a
\* callback, on_step, which sees the parameters after the epoch's optimizer
\* step when there is one.
C8_EpochOrder ==
    Training =>
        /\ \A e \in 0 .. epoch :
              /\ IsPrefix(StepsOf(e), EpochOrder(e))
              /\ EpochOver(e) => StepsOf(e) = EpochOrder(e)
        /\ \A i \in 1 .. Len(log) : i < Len(log) => log[i].epoch <= log[i + 1].epoch
        /\ \A i \in 1 .. Len(log) :
              log[i].ev = "on_step" =>
                 \A j \in 1 .. Len(log) :
                    (log[j].ev = "opt.step" /\ log[j].epoch = log[i].epoch) =>
                       j < i /\ log[i].opt_steps = log[j].opt_steps + 1

\* With residuals, a callback and an optimizer step in every epoch, a call
\* of two epochs returned, and its second on_step saw both steps.
C8_Witness ==
    /\ train_pc = "done"
    /\ tcall.epochs = 2
    /\ tcall.callback
    /\ trainee.use_residuals_method
    /\ trainee.gradient_accumulation = 1
    /\ calls = 1
    /\ \E i \in 1 .. Len(log) :
          log[i].ev = "on_step" /\ log[i].epoch = 1 /\ log[i].opt_steps = 2

Hooks == {"on_training_start", "on_step", "on_training_end"}

\* C9: a train_model call of E >= 0 epochs with a callback that returns has
\* called on_training_start once, on_step E times and on_training_end once,
\* as its last act; on_training_start comes after check_dataset and before
\* any sample, on_step is the last step of its epoch; without a callback no
\* hook is called; no sample is taken before check_dataset has been called.
C9_Hooks ==
    Training =>
        /\ \A i \in 1 .. Len(log) :
              /\ log[i].ev = "sample" => \E j \in 1 .. i - 1 : log[j].ev = "check_dataset"
              /\ log[i].ev = "on_training_start" =>
                    /\ \E j \in 1 .. i - 1 : log[j].ev = "check_dataset"
                    /\ \A j \in 1 .. i - 1 : log[j].ev # "sample"
              /\ log[i].ev = "on_step" =>
                    \A j \in i + 1 .. Len(log) : log[j].epoch = log[i].epoch =>
                                                    log[j].ev = "on_training_end"
              /\ log[i].ev = "on_training_end" => i = Len(log)
              /\ log[i].ev \in Hooks => tcall.callback
        /\ Count("on_training_start") <= 1
        /\ (tcall.callback /\ train_pc \notin {"check_dataset", "on_training_start", "raised"}) =>
              Count("on_training_start") = 1
        /\ (tcall.callback /\ train_pc = "done") =>
              /\ Count("on_training_start") = 1
              /\ Count("on_step") = tcall.epochs
              /\ Count("on_training_end") = 1
              /\ \A e \in 0 .. tcall.epochs - 1 :
                    Len(SelectSeq(log, LAMBDA x : x.ev = "on_step" /\ x.epoch = e)) = 1

\* A call of no epochs with a callback returned: on_training_start and
\* on_training_end were called, on_step was not.
C9_Witness ==
    /\ train_pc = "done"
    /\ tcall.callback
    /\ tcall.epochs = 0
    /\ Count("on_training_start") = 1
    /\ Count("on_step") = 0
    /\ Count("on_training_end") = 1

----------------------------------------------------------------------------
(* train_model: errors inside an epoch.                                    *)

\* The events of the log that belong to epoch e.
EventsOf(e, name) == Len(SelectSeq(log, LAMBDA x : x.ev = name /\ x.epoch = e))

\* The call ended with an exception raised inside an epoch.
RaisedInEpoch == train_pc = "raised" /\ epoch >= 0

\* The last thing the call did is the operation that fails in this epoch.
FailedInEpoch ==
    /\ Training
    /\ log # <<>>
    /\ log[Len(log)].epoch = epoch
    /\ Faulty(log[Len(log)].ev)

\* C21: an error raised inside an epoch leaves train_model as it is: the
\* operation that failed was called once in that epoch and is the last
\* thing the call did (it ends the call), no optimizer step belongs to that epoch, nothing of
\* a later epoch happened, on_step of that epoch and on_training_end were
\* not called, and the only thing that follows is a new call.
C21_ErrorsPropagate ==
    /\ [](FailedInEpoch => train_pc = "raised" /\ raised.type \in {tcall.fault.type, "TypeError"})
    /\ [](RaisedInEpoch =>
            /\ raised # NoExc
            /\ log[Len(log)].ev = raised.at
            /\ log[Len(log)].epoch = epoch
            /\ EventsOf(epoch, raised.at) = 1
            /\ EventsOf(epoch, "opt.step") = 0
            /\ EventsOf(epoch, "on_step") = 0
            /\ Count("on_training_end") = 0
            /\ \A i \in 1 .. Len(log) : log[i].epoch <= epoch
            /\ \A i \in 1 .. Len(log) : log[i].opt_steps <= opt_steps
            /\ opt_steps = log[Len(log)].opt_steps)
    /\ [][RaisedInEpoch => train_pc' = "check_dataset" /\ calls' = calls + 1]_vars

\* The least-squares solve failed on a singular matrix in the last of
\* several epochs of a call with a callback, after an optimizer step.
C21_Witness ==
    /\ RaisedInEpoch
    /\ raised.type = "LinAlgError"
    /\ epoch = MaxEpochs - 1
    /\ epoch > 0
    /\ tcall.callback
    /\ Count("opt.step") > 0

\* The layers RepresentationEncoderDeepSets.__init__ builds for the keyword
\* arguments kw.
DeepSets_layers_of(input_size, output_size, n_basis, kw) ==
    DeepSets_layers(input_size, output_size, n_basis,
                    KwGet(kw, "phi_hidden_size", Encoder_default_hidden_size),
                    KwGet(kw, "phi_n_layers", Encoder_default_n_layers),
                    KwGet(kw, "rho_hidden_size", Encoder_default_hidden_size),
                    KwGet(kw, "rho_n_layers", Encoder_default_n_layers),
                    KwGet(kw, "aggregation", "mean"),
                    KwGet(kw, "use_layer_norm", FALSE))

\* C25 as stated: for every hidden size >= 1 and layer count >= 1 the
\* count MLP.predict_number_params gives is the parameter count of the
\* layers MLP.__init__ builds, with and without learn_basis_functions, and
\* the same for RepresentationEncoderDeepSets with every aggregation and
\* both values of use_layer_norm; so neither constructor's own assertion
\* on the count fails.
C25_CountsMatchLayers ==
    /\ args.model_type = "MLP" =>
          \A learn_basis_functions \in BOOLEAN :
              MLP_predict_number_params(args.input_size, args.output_size, args.n_basis,
                  KwGet(args.model_kwargs, "hidden_size", MLP_default_hidden_size),
                  KwGet(args.model_kwargs, "n_layers", MLP_default_n_layers),
                  learn_basis_functions)
              = n_params_of(MLP_layers(args.input_size, args.output_size, args.n_basis,
                  KwGet(args.model_kwargs, "hidden_size", MLP_default_hidden_size),
                  KwGet(args.model_kwargs, "n_layers", MLP_default_n_layers),
                  learn_basis_functions))
    /\ DeepSets_predict_number_params(args.input_size, args.output_size, args.n_basis,
                                      args.encoder_kwargs)
          = n_params_of(DeepSets_layers_of(args.input_size, args.output_size, args.n_basis,
                                           args.encoder_kwargs))
    /\ raised.at \notin {"MLP.__init__:63", "RepresentationEncoderDeepSets.__init__:168"}

\* C27 as stated: in least_squares mode, compute_representation on a single
\* function given without the function axis returns a representation of
\* shape [K] and a Gram matrix of shape [K, K]; neither keeps the function
\* axis of size 1 that was added inside.
C27_UnbatchedGram ==
    (/\ Returned("compute_representation")
     /\ Unbatched
     /\ this.representation_mode = "least_squares"
     /\ ret.exc = NoExc) =>
        /\ ret.representation.shape = <<this.n_basis>>
        /\ ret.gram.shape = <<this.n_basis, this.n_basis>>

\* The least-squares representation and Gram matrix of the call's examples.
LeastSquaresOfCall == compute_representation(this, weights, call.example_xs, call.example_ys,
                                             EmptyKwargs)

\* The squared norm of the examples (of their residuals with an average
\* function) minus c^T Gram c, not below 0.
SquaredL2Error(ls) ==
    clamp_min_zero(tsub(_norm(this.data_type, ls.solver_ys, TRUE),
                        einsum_fk_fkl_fl(ls.representation, ls.gram)))

\* C29 as stated: estimate_L2_error raises ValueError when the
\* representation mode is not least_squares; for a least_squares encoder it
\* returns a tensor of shape (F,) whose entries are the square roots of
\* max(0, squared norm of the (residual) example_ys - c^T Gram c), c the
\* least-squares representation, so none is negative.
C29_L2Error ==
    Returned("estimate_L2_error") =>
        IF this.representation_mode # "least_squares"
        THEN ret.exc.type = "ValueError"
        ELSE LeastSquaresOfCall.exc = NoExc =>
                /\ ret.exc = NoExc
                /\ ret.l2_distance.shape = <<call.example_xs.shape[1]>>
                /\ \A ix \in Idx(ret.l2_distance.shape) :
                      /\ ret.l2_distance.data[ix].sqrt_of.n >= 0
                      /\ ret.l2_distance.data[ix].sqrt_of
                            = SquaredL2Error(LeastSquaresOfCall).data[ix]

----------------------------------------------------------------------------
(* predict_from_examples on tensors of any shape.                          *)

\* The leading axes the tensors of a call come with: (D), (F, D), (1, F, D).
ExampleLeads ==
    {<<D>> : D \in 1 .. MaxD}
        \cup {<<F, D>> : F \in 1 .. MaxF, D \in 1 .. MaxD}
        \cup {<<1, 1, D>> : D \in 1 .. MaxD}

QueryLeads == {<<1>>, <<1, 1>>, <<MaxF, 1>>, <<1, 1, 1>>}

\* The trailing shape of a tensor: size, or a size that differs from it.
Trailing(size, fits) == IF fits THEN size ELSE <<size[1] + 1>>

\* At most one of the three tensors has a wrong trailing shape.
TrailingFits == {f \in [{"example_xs", "example_ys", "query_xs"} -> BOOLEAN] :
                    Cardinality({n \in DOMAIN f : ~f[n]}) <= 1}

PFE_outcome(r, forwards) == [exc |-> r.exc, y_hats |-> r.y_hats, forwards |-> forwards]

InitShapes ==
    /\ args = NoCall
    /\ ctor_pc = "unused"
    /\ fe = NoEncoder
    /\ raised = NoExc
    /\ this \in {e \in RepEncoders : e.aggregation = "mean"}
    /\ weights = SeededTheta(this, 1)
    /\ rep_pc = "idle"
    /\ call = NoCall
    /\ ret = NoReturn
    /\ TrainUnused

\* y_hats = self.predict_from_examples(example_xs, example_ys, query_xs)
Call_predict_from_examples_shaped ==
    /\ rep_pc = "idle"
    /\ \E lx \in ExampleLeads, ly \in ExampleLeads, lq \in QueryLeads, fits \in TrailingFits :
          /\ call' = [op |-> "predict_from_examples",
                      example_xs |-> SeededTensor(1, lx \o Trailing(this.input_size,
                                                                    fits.example_xs)),
                      example_ys |-> SeededTensor(2, ly \o Trailing(this.output_size,
                                                                    fits.example_ys)),
                      query_xs |-> SeededTensor(3, lq \o Trailing(this.input_size,
                                                                  fits.query_xs)),
                      kw |-> EmptyKwargs]
          /\ ret' = PFE_outcome(
                        predict_from_examples(this, weights, call'.example_xs,
                                              call'.example_ys, call'.query_xs, EmptyKwargs),
                        predict_from_examples_forwards(this, call'.example_xs,
                                                       call'.example_ys, call'.query_xs))
    /\ rep_pc' = "returned"
    /\ UNCHANGED <<ctorVars, this, weights, trainVars>>

NextShapes ==
    \/ Call_predict_from_examples_shaped
    \/ Return

SpecShapes == InitShapes /\ [][NextShapes]_vars

\* t has not the rank 2 + len(size) or not the trailing shape size.
WrongShape(t, size) ==
    \/ Rank(t) # 2 + Len(size)
    \/ LastDims(t.shape, Len(size)) # size

\* The tensors of the call disagree: a wrong rank or trailing shape, or
\* different F or D of the examples, or a different F of the queries.
Mismatched ==
    \/ WrongShape(call.example_xs, this.input_size)
    \/ WrongShape(call.example_ys, this.output_size)
    \/ WrongShape(call.query_xs, this.input_size)
    \/ call.example_xs.shape[1] # call.example_ys.shape[1]
    \/ call.example_xs.shape[2] # call.example_ys.shape[2]
    \/ call.example_xs.shape[1] # call.query_xs.shape[1]

PreForwardAssertions ==
    {"predict_from_examples:" \o l : l \in {"552", "553", "554", "555", "556", "557",
                                            "558", "559", "560"}}
        \cup {"compute_representation:" \o l : l \in {"207", "208", "209"}}

\* C26: predict_from_examples raises an AssertionError, with no network run
\* forward yet, whenever example_xs and example_ys differ in F or in D, or
\* example_xs and query_xs differ in F, or one of the three tensors has a
\* wrong rank or trailing shape.
C26_MismatchAsserted ==
    (Returned("predict_from_examples") /\ Mismatched) =>
        /\ ret.exc.type = "AssertionError"
        /\ ret.exc.at \in PreForwardAssertions
        /\ ret.forwards = {}
        /\ ret.y_hats = NoTensor

\* The examples differ in D only, which line 559 lets pass and
\* compute_representation's line 209 rejects.
C26_Witness ==
    /\ Returned("predict_from_examples")
    /\ ~WrongShape(call.example_xs, this.input_size)
    /\ ~WrongShape(call.example_ys, this.output_size)
    /\ ~WrongShape(call.query_xs, this.input_size)
    /\ call.example_xs.shape[1] = call.example_ys.shape[1]
    /\ call.example_xs.shape[1] = call.query_xs.shape[1]
    /\ call.example_xs.shape[2] # call.example_ys.shape[2]
    /\ ret.exc = Exc("AssertionError", "compute_representation:209")

\* C28 as stated: over any sequence of train_model calls on one encoder,
\* the gradients an optimizer step applies are accumulated from exactly
\* gradient_accumulation backward passes, all of the current call; and when
\* train_model has returned, no gradient is left accumulated on the
\* parameters for a later call's step.
C28_AccumulationPerCall ==
    /\ train_pc = "opt_step" =>
          passes = [i \in 1 .. trainee.gradient_accumulation |-> calls]
    /\ train_pc = "done" =>
          /\ passes = <<>>
          /\ distance_callback = NoCallback
          /\ grads = NoGrads

----------------------------------------------------------------------------
(* Training runs with a DistanceCallback.                                  *)

MaxLogFreq == 2

\* One encoder trained over several train_model calls, each given the same
\* DistanceCallback or no callback.
InitCallback ==
    /\ args = NoCall
    /\ ctor_pc = "unused"
    /\ fe = NoEncoder
    /\ raised = NoExc
    /\ RepUnused
    /\ trainee \in {t \in Trainees : /\ t.representation_mode = "least_squares"
                                      /\ t.use_residuals_method}
    /\ tcall = NoCall
    /\ train_pc = "idle"
    /\ epoch = -1
    /\ log = <<>>
    /\ graph = NoGraph
    /\ grads = NoGrads
    /\ passes = <<>>
    /\ opt_steps = 0
    /\ calls = 0
    /\ \E log_freq \in 1 .. MaxLogFreq : distance_callback = DistanceCallback_init(log_freq)

SpecCallback == InitCallback /\ [][NextTrain]_vars

\* The scalars written in train_model call run at step e.
ScalarsAt(run, e) ==
    Len(SelectSeq(distance_callback.tensorboard, LAMBDA w : w.run = run /\ w.step = e))

\* C30 as stated: over any sequence of train_model calls, DistanceCallback
\* writes at most one scalar per epoch index within a run, the value before
\* any update at epoch 0 when on_training_start fires on a callback that
\* has not logged yet, and one for each epoch whose index is divisible by
\* log_freq; on_training_start writes nothing once total_epochs > 0; and
\* total_epochs is always the number of scalars written so far.
C30_OneScalarPerEpoch ==
    /\ [](/\ distance_callback.total_epochs = Len(distance_callback.tensorboard)
          /\ \A run \in 1 .. MaxCalls, e \in 0 .. MaxEpochs : ScalarsAt(run, e) <= 1
          /\ \A i \in 1 .. Len(distance_callback.tensorboard) :
                distance_callback.tensorboard[i].step % distance_callback.log_freq = 0)
    /\ [][(train_pc = "on_training_start" /\ distance_callback.total_epochs > 0) =>
              distance_callback' = distance_callback]_vars

\* C24 as stated: train_model returns a list with one loss per epoch, of
\* length epochs.
C24_ReturnsLosses ==
    train_pc = "done" =>
        /\ ret.value # PyNone
        /\ Len(ret.value) = tcall.epochs

----------------------------------------------------------------------------
(* SpecForward: the shape of what MLP.forward (MLP.py, lines 66-88) and    *)
(* CNN.forward (CNN.py, lines 82-113) return, by the shape of the input.   *)

\* shape.squeeze(0)
squeeze_first(shape) == IF shape # <<>> /\ Head(shape) = 1 THEN Tail(shape) ELSE shape

\* Gs as it is sent back to the given shape: reshape is 1 when two leading
\* axes were added, 2 when one was, 0 for None.
send_back(reshape, Gs) ==
    CASE reshape = 1 -> squeeze_first(squeeze_first(Gs))
      [] reshape = 2 -> squeeze_first(Gs)
      [] OTHER -> Gs

\* MLP.py lines 68-75
MLP_reshaped(x) ==
    CASE Len(x) = 1 -> [reshape |-> 1, x |-> <<1, 1>> \o x]
      [] Len(x) = 2 -> [reshape |-> 2, x |-> <<1>> \o x]
      [] OTHER -> [reshape |-> 0, x |-> x]

\* MLP.forward by shapes: x is the shape of the input.
MLP_forward_shape(net, x) ==
    IF x = <<>> \/ x[Len(x)] # net.input_size[1]
    THEN [exc |-> Exc("AssertionError", "MLP.forward:67"), shape |-> <<>>]
    ELSE [exc |-> NoExc,
          shape |-> send_back(MLP_reshaped(x).reshape,
                              SubSeq(MLP_reshaped(x).x, 1, 2) \o net.output_size
                                  \o (IF net.learn_basis_functions THEN <<net.n_basis>>
                                      ELSE <<>>))]

\* CNN.py lines 89-95
CNN_reshaped(x) ==
    CASE Len(x) = 3 -> [reshape |-> 1, x |-> <<1, 1>> \o x]
      [] Len(x) = 4 -> [reshape |-> 2, x |-> <<1>> \o x]
      [] OTHER -> [reshape |-> 0, x |-> x]

\* CNN.py lines 103-106
CNN_view(net, x5) ==
    IF net.n_basis > 1 THEN SubSeq(x5, 1, 2) \o net.output_size \o <<net.n_basis>>
    ELSE SubSeq(x5, 1, 2) \o net.output_size

\* CNN.forward by shapes.
CNN_forward_shape(net, x) ==
    IF Len(x) < 3 THEN [exc |-> Exc("AssertionError", "CNN.forward:83"), shape |-> <<>>]
    ELSE IF LastDims(x, 3) # net.input_size
    THEN [exc |-> Exc("AssertionError", "CNN.forward:84-86"), shape |-> <<>>]
    ELSE [exc |-> NoExc,
          shape |-> send_back(CNN_reshaped(x).reshape, CNN_view(net, CNN_reshaped(x).x))]

\* The networks: an MLP is built to learn basis functions or as the
\* average function, a CNN has the one form its constructor gives it.
ForwardNets ==
    [arch : {"MLP"}, input_size : {<<n>> : n \in SmallSizes},
     output_size : {<<m>> : m \in SmallSizes}, n_basis : 1 .. MaxBasis,
     learn_basis_functions : BOOLEAN]
    \cup
    [arch : {"CNN"}, input_size : {<<c, ImageSide, ImageSide>> : c \in 1 .. MaxChannels},
     output_size : {<<m>> : m \in SmallSizes}, n_basis : 1 .. MaxBasis,
     learn_basis_functions : {TRUE}]

InitForward ==
    /\ args = NoCall
    /\ ctor_pc = "unused"
    /\ fe = NoEncoder
    /\ raised = NoExc
    /\ this \in ForwardNets
    /\ weights = NoTheta
    /\ rep_pc = "idle"
    /\ call = NoCall
    /\ ret = NoReturn
    /\ TrainUnused

\* Gs = net.forward(x) for an input with no, one or two leading axes, of
\* the network's input size or of another.
Call_forward ==
    /\ rep_pc = "idle"
    /\ \E lead \in {<<>>} \cup {<<D>> : D \in 1 .. MaxD}
                   \cup {<<F, D>> : F \in 1 .. MaxF, D \in 1 .. MaxD},
          fits \in BOOLEAN :
          LET x == lead \o (IF fits THEN this.input_size
                            ELSE <<Head(this.input_size) + 1>> \o Tail(this.input_size))
          IN  /\ call' = [op |-> "forward", lead |-> lead, x |-> x]
              /\ ret' = IF this.arch = "MLP" THEN MLP_forward_shape(this, x)
                        ELSE CNN_forward_shape(this, x)
    /\ rep_pc' = "returned"
    /\ UNCHANGED <<ctorVars, this, weights, trainVars>>

NextForward == Call_forward \/ Return

SpecForward == InitForward /\ [][NextForward]_vars

\* C22 as stated: a network built to learn basis functions returns the
\* leading axes of its input, then output_size, then n_basis, for every
\* n_basis >= 1; one built as the average function returns the leading
\* axes and output_size; for the MLP and for the CNN.
C22_ForwardShape ==
    (Returned("forward") /\ LastDims(call.x, Len(this.input_size)) = this.input_size) =>
        /\ ret.exc = NoExc
        /\ ret.shape = call.lead \o this.output_size
                           \o (IF this.learn_basis_functions THEN <<this.n_basis>> ELSE <<>>)

----------------------------------------------------------------------------
(* SpecLife: one encoder over its lifetime, train_model calls and calls of *)
(* the methods that compute from the encoder, in any order.  The encoder   *)
(* is its configuration (trainee), the .grad of its parameters (grads) and *)
(* the optimizer steps applied to them (opt_steps).                        *)

ComputingMethods ==
    {"compute_representation", "predict", "predict_from_examples",
     "forward_basis_functions", "forward_average_function"}

\* What the tensor a method returns is computed from: the parameter groups
\* its graph reaches (lines 211-248, 516-533, 562-564, 777-783).
method_graph(enc, op) ==
    CASE op = "compute_representation" ->
            compute_representation_graph(enc.representation_mode,
                                         enc.use_residuals_method).representation
      [] op = "predict" -> predict_graph(enc.use_residuals_method, {}, FALSE, {})
      [] op = "predict_from_examples" ->
            predict_graph(enc.use_residuals_method,
                          compute_representation_graph(enc.representation_mode,
                                                       enc.use_residuals_method).representation,
                          FALSE, {})
      [] op = "forward_basis_functions" -> forward_graph("model", {})
      [] op = "forward_average_function" ->
            IF enc.use_residuals_method THEN forward_graph("average_function", {}) ELSE {}

\* A method that also steps the optimizer.
M_call_stepping ==
    /\ rep_pc = "idle"
    /\ train_pc \in {"idle", "done", "raised"}
    /\ \E op \in ComputingMethods :
          /\ call' = [op |-> op]
          /\ ret' = [exc |-> NoExc, graph |-> method_graph(trainee, op)]
    /\ rep_pc' = "returned"
    /\ opt_steps' = opt_steps + 1
    /\ UNCHANGED <<ctorVars, this, weights, trainee, distance_callback, tcall, train_pc,
                   epoch, log, graph, grads, passes, calls>>

\* One of the computing methods is called between two train_model calls:
\* none of them assigns an attribute, calls backward or touches self.opt.
M_call ==
    /\ rep_pc = "idle"
    /\ train_pc \in {"idle", "done", "raised"}
    /\ \E op \in ComputingMethods :
          /\ call' = [op |-> op]
          /\ ret' = [exc |-> NoExc, graph |-> method_graph(trainee, op)]
    /\ rep_pc' = "returned"
    /\ UNCHANGED <<ctorVars, this, weights, trainVars>>

InitLife ==
    /\ args = NoCall
    /\ ctor_pc = "unused"
    /\ fe = NoEncoder
    /\ raised = NoExc
    /\ this = NoEncoder
    /\ weights = NoTheta
    /\ rep_pc = "idle"
    /\ call = NoCall
    /\ ret = NoReturn
    /\ trainee \in Trainees
    /\ tcall = NoCall
    /\ train_pc = "idle"
    /\ epoch = -1
    /\ log = <<>>
    /\ graph = NoGraph
    /\ grads = NoGrads
    /\ passes = <<>>
    /\ distance_callback = NoCallback
    /\ opt_steps = 0
    /\ calls = 0

NextLife ==
    \/ rep_pc = "idle" /\ NextTrain
    \/ M_call
    \/ Return

SpecLife == InitLife /\ [][NextLife]_vars

\* A step in which one of the computing methods runs.
MethodStep == rep_pc = "idle" /\ rep_pc' = "returned" /\ call'.op \in ComputingMethods

\* C23: the computing methods leave the configuration, the parameters'
\* gradients and the optimizer's steps as they are and put no attribute on
\* the encoder; over the whole life of the encoder the parameters are
\* stepped only by the opt.step() of train_model, and the configuration
\* never changes.
C23_MethodsKeepEncoder ==
    [][/\ MethodStep =>
             /\ trainee' = trainee
             /\ DOMAIN trainee' = DOMAIN trainee
             /\ grads' = grads
             /\ opt_steps' = opt_steps
             /\ graph' = graph
       /\ opt_steps' # opt_steps => train_pc = "opt_step" /\ opt_steps' = opt_steps + 1
       /\ trainee' = trainee]_vars

\* A computing method has returned on an encoder that train_model has
\* stepped, with gradients left on its parameters.
C23_Witness ==
    /\ rep_pc = "returned"
    /\ call.op = "compute_representation"
    /\ opt_steps > 0
    /\ grads # NoGrads
    /\ train_pc = "done"

====
